---- MODULE Spec2Model ----
(***************************************************************************)
(* A model of the PR review notifier (index.js, src/github.js,             *)
(* src/mapper.js, src/slack.js): one pull request on the code host, one    *)
(* chat channel, and one run of the action per webhook delivery.           *)
(*                                                                         *)
(* Texts (handles, file paths, ownership patterns, comment bodies) are     *)
(* sequences of one-character strings.  A PR body is a sequence of lines;  *)
(* a line is blank, plain text, or one of the two pointer markers.         *)
(***************************************************************************)
EXTENDS Integers, Sequences, FiniteSets, TLC

VARIABLES config, pr, repoFiles, channel, nextTs, deliveries, inv, fn, race, run

vars == <<config, pr, repoFiles, channel, nextTs, deliveries, inv, fn, race, run>>

\* ------------------------------------------------------------------------
\* Bounds of the model
\* ------------------------------------------------------------------------

\* number of webhook deliveries in one behaviour
MaxDeliveries == 3

\* number of pull_request deliveries in one behaviour of SpecOpened
MaxPRDeliveries == 2

\* length of the texts given to extractMentions
MaxTextLen == 4

\* length of the file paths and patterns given to matchPattern
MaxPathLen == 3

\* number of handles in a batch given to mapGitHubUsersToSlack
MaxHandles == 2

\* number of lines of a CODEOWNERS file and of changed files of a PR
MaxRules == 3
MaxFiles == 2

\* number of lines of a PR body given to summarizePRBody
MaxBodyLines == 4

\* ------------------------------------------------------------------------
\* Values
\* ------------------------------------------------------------------------

Null == "null"

\* the outcome of an external call that throws
Throws == "throws"
NoHandle == <<>>

a == <<"a">>
b == <<"b">>
c == <<"c">>
d == <<"d">>
BotLogin == <<"github-actions[bot]">>

Handles == {a, b, c}

AlphaNum == {"a", "b", "c"}

\* the PR status enumeration
PR_STATUS ==
  [REVIEW_PENDING |-> "review-pending", IN_REVIEW |-> "in-review",
   APPROVED |-> "approved", CHANGES_REQUESTED |-> "changes-requested",
   MERGED |-> "merged", CLOSED |-> "closed"]

StatusValues ==
  {PR_STATUS.REVIEW_PENDING, PR_STATUS.IN_REVIEW, PR_STATUS.APPROVED,
   PR_STATUS.CHANGES_REQUESTED, PR_STATUS.MERGED, PR_STATUS.CLOSED}

\* ------------------------------------------------------------------------
\* Sequence helpers (JavaScript string / array / Set primitives)
\* ------------------------------------------------------------------------

Range(s) == {s[i] : i \in 1..Len(s)}

Front(s) == SubSeq(s, 1, Len(s) - 1)

\* String.prototype.startsWith
StartsWith(s, p) == Len(p) <= Len(s) /\ SubSeq(s, 1, Len(p)) = p

\* String.prototype.endsWith
EndsWith(s, p) == Len(p) <= Len(s) /\ SubSeq(s, Len(s) - Len(p) + 1, Len(s)) = p

\* String.prototype.includes
Includes(s, p) == \E i \in 0..(Len(s) - Len(p)) : SubSeq(s, i + 1, i + Len(p)) = p

\* Array.from(new Set(s)): first occurrences, in insertion order
RECURSIVE Uniq(_)
Uniq(s) ==
  IF s = <<>> THEN <<>>
  ELSE LET r == Uniq(Front(s))
           x == s[Len(s)]
       IN IF x \in Range(r) THEN r ELSE Append(r, x)

RECURSIVE Reverse(_)
Reverse(s) == IF s = <<>> THEN <<>> ELSE Append(Reverse(Tail(s)), Head(s))

RECURSIVE Flatten(_)
Flatten(ss) == IF ss = <<>> THEN <<>> ELSE Head(ss) \o Flatten(Tail(ss))

NoDup(s) == \A i, j \in 1..Len(s) : s[i] = s[j] => i = j

\* ------------------------------------------------------------------------
\* The environment: chat directory, code-host profiles, repository content
\* ------------------------------------------------------------------------

\* users.lookupByEmail: the chat identity registered for an email; the
\* request for e@co throws
SlackDirectory ==
  [e \in {"a@co", "b@co", "c@co", "d@co", "e@co"} |->
     CASE e = "a@co" -> "U1"
       [] e = "b@co" -> "U2"
       [] e = "c@co" -> "U3"
       [] e = "e@co" -> Throws
       [] OTHER -> Null]

\* users.getByUsername: the public email of a code-host account; the
\* request for d throws
GitHubProfiles ==
  [h \in Handles \cup {d} |->
     CASE h = a -> "a@co" [] h = b -> Null [] h = d -> Throws [] OTHER -> "c@co"]

\* changed files of the PR (pulls.listFiles), as paths
FileSX == <<"s", "/", "x", ".", "j">>
FileD == <<"d", ".", "m">>

\* a CODEOWNERS file: lines of whitespace-separated tokens
OwnersFile ==
  << <<<<"#">>, <<"o">>>>,
     <<<<"*">>, <<"@", "a">>>>,
     <<>>,
     <<<<"*", ".", "j">>, <<"@", "b">>, <<"@", "c">>>>,
     <<<<"s", "/">>, <<"@", "c">>, <<"x">>>>,
     <<<<"/", "d">>>> >>

\* ------------------------------------------------------------------------
\* src/github.js: pure functions
\* ------------------------------------------------------------------------

\* last index of the run of [a-zA-Z0-9-] characters that starts at i
RECURSIVE RunEnd(_, _)
RunEnd(text, i) ==
  IF i + 1 <= Len(text) /\ text[i + 1] \in AlphaNum \cup {"-"}
  THEN RunEnd(text, i + 1)
  ELSE i

\* greedy [a-zA-Z0-9-]*[a-zA-Z0-9] with backtracking: drop trailing hyphens
RECURSIVE LastAlnum(_, _)
LastAlnum(text, i) == IF text[i] \in AlphaNum THEN i ELSE LastAlnum(text, i - 1)

\* text.matchAll(/@([a-zA-Z0-9](?:[a-zA-Z0-9-]*[a-zA-Z0-9])?)/g), group 1
RECURSIVE MatchAllMentions(_, _)
MatchAllMentions(text, i) ==
  IF i > Len(text) THEN <<>>
  ELSE IF text[i] = "@" /\ i + 1 <= Len(text) /\ text[i + 1] \in AlphaNum
       THEN LET m == LastAlnum(text, RunEnd(text, i + 1))
            IN <<SubSeq(text, i + 1, m)>> \o MatchAllMentions(text, m + 1)
       ELSE MatchAllMentions(text, i + 1)

\* mutant: the matches are returned without the Set
extractMentionsKeepsRepeats(text) ==
  IF text = <<>> THEN <<>> ELSE MatchAllMentions(text, 1)

extractMentions(text) ==
  IF text = <<>> THEN <<>> ELSE Uniq(MatchAllMentions(text, 1))

\* mutant: the directory rule is tried before the extension rule
matchPatternDirFirst(file, pattern) ==
  IF pattern = <<"*">> THEN TRUE
  ELSE IF EndsWith(pattern, <<"/">>)
       THEN StartsWith(file, pattern) \/ StartsWith(file, Front(pattern))
  ELSE IF StartsWith(pattern, <<"*", ".">>)
       THEN EndsWith(file, Tail(pattern))
  ELSE IF StartsWith(pattern, <<"/">>)
       THEN file = Tail(pattern) \/ StartsWith(file, Tail(pattern) \o <<"/">>)
  ELSE Includes(file, pattern)

matchPattern(file, pattern) ==
  IF pattern = <<"*">> THEN TRUE
  ELSE IF StartsWith(pattern, <<"*", ".">>)
       THEN EndsWith(file, Tail(pattern))
  ELSE IF EndsWith(pattern, <<"/">>)
       THEN StartsWith(file, pattern) \/ StartsWith(file, Front(pattern))
  ELSE IF StartsWith(pattern, <<"/">>)
       THEN file = Tail(pattern) \/ StartsWith(file, Tail(pattern) \o <<"/">>)
  ELSE Includes(file, pattern)

\* owners of one line: the tokens after the pattern that start with '@'
RECURSIVE LineOwners(_)
LineOwners(parts) ==
  IF parts = <<>> THEN <<>>
  ELSE IF StartsWith(Head(parts), <<"@">>)
       THEN <<Tail(Head(parts))>> \o LineOwners(Tail(parts))
       ELSE LineOwners(Tail(parts))

RECURSIVE ParseLines(_)
ParseLines(lines) ==
  IF lines = <<>> THEN <<>>
  ELSE LET parts == Head(lines)
           rest == ParseLines(Tail(lines))
       IN IF parts = <<>> \/ StartsWith(Head(parts), <<"#">>) THEN rest
          ELSE IF Len(parts) < 2 THEN rest
          ELSE IF LineOwners(Tail(parts)) = <<>> THEN rest
          ELSE <<[pattern |-> Head(parts), owners |-> LineOwners(Tail(parts))]>> \o rest

\* mutant: the rules are kept in file order
parseCodeownersFileOrder(content) == ParseLines(content)

parseCodeowners(content) == Reverse(ParseLines(content))

\* the owners of the first rule that matches the file, none when no rule does
RECURSIVE FirstMatch(_, _)
FirstMatch(file, rules) ==
  IF rules = <<>> THEN <<>>
  ELSE IF matchPattern(file, Head(rules).pattern) THEN Head(rules).owners
  ELSE FirstMatch(file, Tail(rules))

\* mutant: the loop over the changed files ends at the first file that a
\* rule matches
getCodeOwnersStopsAtFirstOwnedFile(changedFiles, content) ==
  IF changedFiles = <<>> THEN <<>>
  ELSE IF content = <<>> THEN <<>>
  ELSE LET rules == parseCodeowners(content)
           owned == {i \in 1..Len(changedFiles) : FirstMatch(changedFiles[i], rules) # <<>>}
       IN IF owned = {} THEN <<>>
          ELSE Uniq(FirstMatch(changedFiles[CHOOSE i \in owned : \A j \in owned : i <= j],
                               rules))

\* getCodeOwners(changedFiles, content): content is empty when no candidate
\* path holds a CODEOWNERS file with content
getCodeOwners(changedFiles, content) ==
  IF changedFiles = <<>> THEN <<>>
  ELSE IF content = <<>> THEN <<>>
  ELSE LET rules == parseCodeowners(content)
       IN Uniq(Flatten([i \in 1..Len(changedFiles) |-> FirstMatch(changedFiles[i], rules)]))

\* getChangedFiles: the file names of pulls.listFiles, none when the call throws
getChangedFiles(listing) == IF listing.ok THEN listing.files ELSE <<>>

\* mutant: a candidate path whose request throws ends the search
FindCodeownersStopsAtFailure(responses) ==
  LET found == {k \in 1..Len(responses) :
                  /\ responses[k].res = "file"
                  /\ \A j \in 1..(k - 1) : responses[j].res = "empty"}
  IN IF found = {} THEN <<>>
     ELSE responses[CHOOSE k \in found : \A j \in found : k <= j].content

\* the loop over .github/CODEOWNERS, CODEOWNERS, docs/CODEOWNERS: the content
\* of the first path whose request returns content; a request that throws or
\* returns no content moves on to the next path
FindCodeowners(responses) ==
  LET found == {k \in 1..Len(responses) : responses[k].res = "file"}
  IN IF found = {} THEN <<>>
     ELSE responses[CHOOSE k \in found : \A j \in found : k <= j].content

\* getCodeOwners with its requests: the changed files are listed, the
\* candidate paths are read, the rules are applied; the outer catch returns
\* no owner for anything thrown in between
getCodeOwnersOfPR(listing, responses) ==
  [threw |-> FALSE,
   owners |-> getCodeOwners(getChangedFiles(listing), FindCodeowners(responses))]

\* ------------------------------------------------------------------------
\* src/mapper.js: identity mapper
\* ------------------------------------------------------------------------

\* try { lookupByEmail } catch { } return null
emailToSlackId(email) ==
  LET result == IF email \in DOMAIN SlackDirectory THEN SlackDirectory[email] ELSE Null
  IN IF result = Throws THEN Null ELSE result

\* try { getByUsername; return user.email } catch { return null }
getGitHubUserEmail(username) ==
  LET user == IF username \in DOMAIN GitHubProfiles THEN GitHubProfiles[username] ELSE Null
  IN IF user = Throws THEN Null ELSE user

\* mutant: the profile email is tried before the explicit mapping
mapGitHubUserToSlackAutoFirst(githubUsername, cfg) ==
  LET mappedEmail == IF githubUsername \in DOMAIN cfg.email_mappings
                     THEN cfg.email_mappings[githubUsername] ELSE Null
      byMapping == IF mappedEmail # Null THEN emailToSlackId(mappedEmail) ELSE Null
      githubEmail == IF cfg.auto_match_by_email
                     THEN getGitHubUserEmail(githubUsername) ELSE Null
      byAuto == IF githubEmail # Null THEN emailToSlackId(githubEmail) ELSE Null
  IN IF byAuto # Null THEN byAuto
     ELSE IF byMapping # Null THEN byMapping
     ELSE Null

mapGitHubUserToSlack(githubUsername, cfg) ==
  LET mappedEmail == IF githubUsername \in DOMAIN cfg.email_mappings
                     THEN cfg.email_mappings[githubUsername] ELSE Null
      byMapping == IF mappedEmail # Null THEN emailToSlackId(mappedEmail) ELSE Null
      githubEmail == IF cfg.auto_match_by_email
                     THEN getGitHubUserEmail(githubUsername) ELSE Null
      byAuto == IF githubEmail # Null THEN emailToSlackId(githubEmail) ELSE Null
  IN IF byMapping # Null THEN byMapping
     ELSE IF byAuto # Null THEN byAuto
     ELSE Null

\* the external requests mapGitHubUserToSlack makes, in order
mapGitHubUserToSlackCalls(githubUsername, cfg) ==
  LET mappedEmail == IF githubUsername \in DOMAIN cfg.email_mappings
                     THEN cfg.email_mappings[githubUsername] ELSE Null
      first == IF mappedEmail # Null
               THEN <<[api |-> "users.lookupByEmail", arg |-> mappedEmail]>> ELSE <<>>
      byMapping == IF mappedEmail # Null THEN emailToSlackId(mappedEmail) ELSE Null
      githubEmail == getGitHubUserEmail(githubUsername)
  IN IF byMapping # Null THEN first
     ELSE IF cfg.auto_match_by_email
     THEN first \o <<[api |-> "users.getByUsername", arg |-> githubUsername]>>
          \o (IF githubEmail # Null
              THEN <<[api |-> "users.lookupByEmail", arg |-> githubEmail]>> ELSE <<>>)
     ELSE first

\* mutant: the batch stops at the first handle that does not resolve
RECURSIVE mapGitHubUsersToSlackAborts(_, _)
mapGitHubUsersToSlackAborts(githubUsernames, cfg) ==
  IF githubUsernames = <<>> THEN <<>>
  ELSE LET slackId == mapGitHubUserToSlack(Head(githubUsernames), cfg)
           rest == mapGitHubUsersToSlackAborts(Tail(githubUsernames), cfg)
       IN IF slackId # Null THEN <<slackId>> \o rest ELSE <<>>

RECURSIVE mapGitHubUsersToSlack(_, _)
mapGitHubUsersToSlack(githubUsernames, cfg) ==
  IF githubUsernames = <<>> THEN <<>>
  ELSE LET slackId == mapGitHubUserToSlack(Head(githubUsernames), cfg)
           rest == mapGitHubUsersToSlack(Tail(githubUsernames), cfg)
       IN IF slackId # Null THEN <<slackId>> \o rest ELSE rest

RECURSIVE getDefaultReviewersSlackIds(_)
getDefaultReviewersSlackIds(defaultReviewers) ==
  IF defaultReviewers = <<>> THEN <<>>
  ELSE LET slackId == emailToSlackId(Head(defaultReviewers))
           rest == getDefaultReviewersSlackIds(Tail(defaultReviewers))
       IN IF slackId # Null THEN <<slackId>> \o rest ELSE rest

\* ------------------------------------------------------------------------
\* The PR body: lines, pointer markers
\* ------------------------------------------------------------------------

Blank == [k |-> "blank", v |-> "", len |-> 0]
TextLine(t, n) == [k |-> "text", v |-> t, len |-> n]

\* <!-- slack-thread-ts: {ts} -->
TsMarker(ts) == [k |-> "ts", v |-> ts, len |-> 43]

\* <!-- slack-status: {status} -->
StatusMarker(status) == [k |-> "status", v |-> status, len |-> 37]

RECURSIVE FirstOfKind(_, _)
FirstOfKind(body, kind) ==
  IF body = <<>> THEN Null
  ELSE IF Head(body).k = kind THEN Head(body).v
  ELSE FirstOfKind(Tail(body), kind)

\* body.match(/<!-- slack-thread-ts: (.+?) -->/): the first marker, or null;
\* null as well when the read of the PR throws
getSlackThreadTs(body, readFails) ==
  IF readFails THEN Null ELSE FirstOfKind(body, "ts")

\* the status marker of the body; review-pending when the body has none
getPRStatus(body) ==
  IF FirstOfKind(body, "status") = Null THEN PR_STATUS.REVIEW_PENDING
  ELSE FirstOfKind(body, "status")

RECURSIVE ReplaceFirstStatus(_, _)
ReplaceFirstStatus(body, status) ==
  IF body = <<>> THEN <<>>
  ELSE IF Head(body).k = "status" THEN <<StatusMarker(status)>> \o Tail(body)
  ELSE <<Head(body)>> \o ReplaceFirstStatus(Tail(body), status)

\* the body updatePRStatus writes: the status marker overwritten in place,
\* or appended when the body has none
updatePRStatus(body, status) ==
  IF FirstOfKind(body, "status") = Null THEN Append(body, StatusMarker(status))
  ELSE ReplaceFirstStatus(body, status)

\* pull_request.body || ''  (a null body has no line, '' is one blank line)
parsePRBody(body) == IF body = <<>> THEN <<Blank>> ELSE body

\* mutant: the status marker is left out of the body written
AppendPointerTsOnly(body, ts, status) == body \o <<Blank, TsMarker(ts)>>

\* prData.body + `\n\n<!-- slack-thread-ts: ${ts} -->\n<!-- slack-status: ${status} -->`
AppendPointer(body, ts, status) == body \o <<Blank, TsMarker(ts), StatusMarker(status)>>

RECURSIVE NonBlank(_)
NonBlank(body) ==
  IF body = <<>> THEN <<>>
  ELSE IF Head(body).k = "blank" THEN NonBlank(Tail(body))
  ELSE <<Head(body)>> \o NonBlank(Tail(body))

RECURSIVE SumLen(_)
SumLen(lines) == IF lines = <<>> THEN 0 ELSE Head(lines).len + SumLen(Tail(lines))

SummaryLimit == 200

\* the length of '_설명 없음_', and of the three lines joined by newlines
PlaceholderLength == 7

JoinedLength(lines) == SumLen(lines) + (IF lines = <<>> THEN 0 ELSE Len(lines) - 1)

\* mutant: the text is cut at the limit and '...' is added to it
summarizePRBodyCutsAtLimit(body) ==
  LET lines == NonBlank(body)
      first == SubSeq(lines, 1, IF Len(lines) < 3 THEN Len(lines) ELSE 3)
      length == JoinedLength(first)
  IN IF lines = <<>>
     THEN [placeholder |-> TRUE, lines |-> <<>>, cut |-> FALSE, len |-> PlaceholderLength]
     ELSE [placeholder |-> FALSE, lines |-> first, cut |-> length > SummaryLimit,
           len |-> IF length > SummaryLimit THEN SummaryLimit + 3 ELSE length]

\* summarizePRBody: placeholder, or the first three non-blank lines, cut to
\* 197 characters and '...' when their joined length exceeds the limit
summarizePRBody(body) ==
  LET lines == NonBlank(body)
      first == SubSeq(lines, 1, IF Len(lines) < 3 THEN Len(lines) ELSE 3)
      length == JoinedLength(first)
  IN IF lines = <<>>
     THEN [placeholder |-> TRUE, lines |-> <<>>, cut |-> FALSE, len |-> PlaceholderLength]
     ELSE [placeholder |-> FALSE, lines |-> first, cut |-> length > SummaryLimit,
           len |-> IF length > SummaryLimit THEN 197 + 3 ELSE length]

\* ------------------------------------------------------------------------
\* src/slack.js: message composer
\* ------------------------------------------------------------------------

\* status -> (emoji, label)
getStatusDisplay(status) ==
  CASE status = PR_STATUS.REVIEW_PENDING -> [emoji |-> "yellow", text |-> "review pending"]
    [] status = PR_STATUS.IN_REVIEW -> [emoji |-> "blue", text |-> "in review"]
    [] status = PR_STATUS.APPROVED -> [emoji |-> "check", text |-> "approved"]
    [] status = PR_STATUS.CHANGES_REQUESTED -> [emoji |-> "red", text |-> "changes requested"]
    [] status = PR_STATUS.MERGED -> [emoji |-> "party", text |-> "merged"]
    [] status = PR_STATUS.CLOSED -> [emoji |-> "black", text |-> "closed"]
    [] OTHER -> [emoji |-> "yellow", text |-> "review pending"]

createPRNotificationMessage(prData, reviewerSlackIds, authorSlackId, status) ==
  [kind |-> "head",
   reviewerMentions |-> reviewerSlackIds,
   authorMention |-> authorSlackId,
   authorPlain |-> IF authorSlackId # Null THEN NoHandle ELSE prData.author,
   statusEmoji |-> IF prData.isDraft THEN "memo" ELSE getStatusDisplay(status).emoji,
   statusText |-> IF prData.isDraft THEN "draft" ELSE getStatusDisplay(status).text,
   summary |-> summarizePRBody(prData.body)]

createCommentMessage(commentData, mentionedSlackIds, authorSlackId) ==
  [kind |-> "comment",
   title |-> IF commentData.reviewState # Null
             THEN (CASE commentData.reviewState = "approved" -> "approved"
                     [] commentData.reviewState = "changes_requested" -> "changes requested"
                     [] commentData.reviewState = "commented" -> "review comment"
                     [] OTHER -> "comment")
             ELSE IF commentData.eventType = "pull_request_review_comment"
                  THEN "line comment" ELSE "comment",
   authorMention |-> authorSlackId,
   authorPlain |-> IF authorSlackId # Null THEN NoHandle ELSE commentData.author,
   mentions |-> mentionedSlackIds]

\* ------------------------------------------------------------------------
\* index.js: reviewer aggregation of handlePROpened
\* ------------------------------------------------------------------------

\* the reviewer ids and the provenance label handlePROpened computes
AggregateReviewers(prData, codeOwners, cfg) ==
  LET fromReviewers == SelectSeq(prData.reviewers, LAMBDA r : r # prData.author)
      fromOwners == SelectSeq(codeOwners, LAMBDA o : o # prData.author)
      allReviewers == Uniq(fromReviewers \o fromOwners)
      sources == (IF Len(prData.reviewers) > 0 THEN <<"reviewers">> ELSE <<>>)
                 \o (IF Len(codeOwners) > 0 THEN <<"codeowners">> ELSE <<>>)
      mapped == IF Len(allReviewers) > 0
                THEN mapGitHubUsersToSlack(allReviewers, cfg) ELSE <<>>
      defaultSlackIds == getDefaultReviewersSlackIds(cfg.default_reviewers)
  IN IF Len(cfg.default_reviewers) > 0
     THEN [reviewerSlackIds |-> Uniq(mapped \o defaultSlackIds),
           reviewerSource |->
             IF Len(defaultSlackIds) > 0 THEN Append(sources, "default")
             ELSE IF Len(allReviewers) > 0 THEN sources ELSE <<"none">>]
     ELSE [reviewerSlackIds |-> mapped,
           reviewerSource |-> IF Len(allReviewers) > 0 THEN sources ELSE <<"none">>]

\* ------------------------------------------------------------------------
\* index.js: status state machine and reply targets of handleComment
\* ------------------------------------------------------------------------

\* mutant: every review, whatever its verdict, notifies the PR author
IsVerdictAnyReview(reviewState) == reviewState # Null

\* reviewState === 'approved' || reviewState === 'changes_requested'
IsVerdict(reviewState) == reviewState \in {"approved", "changes_requested"}

\* mutant: a comment moves every status to in-review
NextStatusCommentResets(currentStatus, reviewState) ==
  IF reviewState = "approved" THEN PR_STATUS.APPROVED
  ELSE IF reviewState = "changes_requested" THEN PR_STATUS.CHANGES_REQUESTED
  ELSE PR_STATUS.IN_REVIEW

\* mutant: the review-pending test comes before the verdict tests
NextStatusPendingFirst(currentStatus, reviewState) ==
  IF currentStatus = PR_STATUS.REVIEW_PENDING THEN PR_STATUS.IN_REVIEW
  ELSE IF reviewState = "approved" THEN PR_STATUS.APPROVED
  ELSE IF reviewState = "changes_requested" THEN PR_STATUS.CHANGES_REQUESTED
  ELSE currentStatus

\* mutant: an approval marks the PR merged
NextStatusApprovalMerges(currentStatus, reviewState) ==
  IF reviewState = "approved" THEN PR_STATUS.MERGED
  ELSE IF reviewState = "changes_requested" THEN PR_STATUS.CHANGES_REQUESTED
  ELSE IF currentStatus = PR_STATUS.REVIEW_PENDING THEN PR_STATUS.IN_REVIEW
  ELSE currentStatus

\* mutant: a comment or review on a draft PR leaves the status as it is
NextStatusDraftHolds(currentStatus, reviewState) ==
  IF pr.draft THEN currentStatus
  ELSE IF reviewState = "approved" THEN PR_STATUS.APPROVED
  ELSE IF reviewState = "changes_requested" THEN PR_STATUS.CHANGES_REQUESTED
  ELSE IF currentStatus = PR_STATUS.REVIEW_PENDING THEN PR_STATUS.IN_REVIEW
  ELSE currentStatus

\* mutant: a comment after a verdict puts the PR back in review
NextStatusCommentReopens(currentStatus, reviewState) ==
  IF reviewState = "approved" THEN PR_STATUS.APPROVED
  ELSE IF reviewState = "changes_requested" THEN PR_STATUS.CHANGES_REQUESTED
  ELSE IF currentStatus \in {PR_STATUS.REVIEW_PENDING, PR_STATUS.APPROVED,
                             PR_STATUS.CHANGES_REQUESTED} THEN PR_STATUS.IN_REVIEW
  ELSE currentStatus

\* the new status handleComment derives from the current one and the event
NextStatus(currentStatus, reviewState) ==
  IF reviewState = "approved" THEN PR_STATUS.APPROVED
  ELSE IF reviewState = "changes_requested" THEN PR_STATUS.CHANGES_REQUESTED
  ELSE IF currentStatus = PR_STATUS.REVIEW_PENDING THEN PR_STATUS.IN_REVIEW
  ELSE currentStatus

\* mutant: the head message is re-rendered on every event
StatusChangedAlways(newStatus, currentStatus) == TRUE

\* if (newStatus !== currentStatus)
StatusChanged(newStatus, currentStatus) == newStatus # currentStatus

\* mutant: the PR author is notified of every comment
TargetUsersAlwaysAuthor(reviewState, prAuthor, body) ==
  Uniq(<<prAuthor>> \o extractMentions(body))

\* the handles the thread reply is for, before resolution
TargetUsers(reviewState, prAuthor, body) ==
  Uniq((IF IsVerdict(reviewState) THEN <<prAuthor>> ELSE <<>>) \o extractMentions(body))

\* ------------------------------------------------------------------------
\* The chat channel
\* ------------------------------------------------------------------------

Call(op, ts, threadTs, ok) == [op |-> op, ts |-> ts, thread_ts |-> threadTs, ok |-> ok]

HasMessage(ch, ts) == \E i \in 1..Len(ch) : ch[i].ts = ts

\* The channel keeps a head message with its payload (it is edited in place
\* later) and a thread reply by timestamp and thread only; the payload of
\* the reply a run sends is kept in inv.reply.
NoMsg == [kind |-> "none"]

\* chat.postMessage without thread_ts (sendSlackMessage) or with it (sendThreadReply)
ChatPost(ch, ts, threadTs, msg) ==
  Append(ch, [ts |-> ts, thread_ts |-> threadTs,
              msg |-> IF threadTs = Null THEN msg ELSE NoMsg])

\* chat.update: the message with that ts is replaced in place
ChatUpdate(ch, ts, msg) ==
  [i \in 1..Len(ch) |-> IF ch[i].ts = ts THEN [ch[i] EXCEPT !.msg = msg] ELSE ch[i]]

HeadMessages(ch) == SelectSeq(ch, LAMBDA m : m.thread_ts = Null)

\* ------------------------------------------------------------------------
\* State
\* ------------------------------------------------------------------------

\* email_mappings of the configuration: no entry; b and c sharing an email;
\* a without entry and c with an email the chat directory does not know
NoMappings == [h \in Handles |-> Null]

SharedMappings ==
  [h \in Handles |-> CASE h = a -> "a@co" [] h = b -> "b@co" [] OTHER -> "b@co"]

PartialMappings ==
  [h \in Handles |-> CASE h = a -> Null [] h = b -> "b@co" [] OTHER -> "d@co"]

MappingChoices == {NoMappings, SharedMappings, PartialMappings}

\* the configurations the PR lifecycle is run under: nothing resolves; the
\* mappings alone resolve; the mappings and the profile emails resolve
LifecycleConfigs ==
  { [email_mappings |-> NoMappings, default_reviewers |-> <<>>,
     auto_match_by_email |-> FALSE],
    [email_mappings |-> SharedMappings, default_reviewers |-> <<>>,
     auto_match_by_email |-> FALSE],
    [email_mappings |-> PartialMappings, default_reviewers |-> <<>>,
     auto_match_by_email |-> TRUE] }

\* default_reviewers of the configuration (emails)
DefaultChoices == { <<>>, <<"a@co", "b@co">>, <<"d@co">> }

\* the mapping table of the build's user-mappings module; the YAML file
\* and its keys as loadConfig finds them: no file, a file that cannot be
\* read or parsed, an empty document, or a document with some of the keys
ConfigKeys == {"email_mappings", "default_reviewers", "auto_match_by_email"}

ConfigFiles ==
  [state : {"missing", "unreadable", "empty"}, keys : {{}},
   email_mappings : {NoMappings}, default_reviewers : {<<>>},
   auto_match_by_email : {TRUE}]
  \cup [state : {"parsed"}, keys : SUBSET ConfigKeys,
        email_mappings : MappingChoices, default_reviewers : DefaultChoices,
        auto_match_by_email : BOOLEAN]

ConfigDefaults(userMappings) ==
  [email_mappings |-> userMappings, default_reviewers |-> <<>>,
   auto_match_by_email |-> TRUE]

\* loadConfig: the defaults when the file is missing, or when reading,
\* parsing or using the document throws (an empty document is undefined);
\* email_mappings is the user-mappings module in every case
loadConfig(file, userMappings) ==
  IF file.state # "parsed"
  THEN ConfigDefaults(userMappings)
  ELSE [email_mappings |-> userMappings,
        default_reviewers |-> IF "default_reviewers" \in file.keys
                              THEN file.default_reviewers ELSE <<>>,
        auto_match_by_email |-> ~("auto_match_by_email" \in file.keys
                                  /\ file.auto_match_by_email = FALSE)]

\* requested_reviewers of the PR
ReviewerChoices == { <<>>, <<a, b>>, <<b, c>> }

\* changed files and CODEOWNERS content of the repository
RepoChoices ==
  { [changedFiles |-> <<>>, codeowners |-> OwnersFile],
    [changedFiles |-> <<FileSX, FileD>>, codeowners |-> <<>>],
    [changedFiles |-> <<FileSX, FileD>>, codeowners |-> OwnersFile] }

\* the description the author gave the PR; no line at all is a null body,
\* and a description may quote a status marker
BodyChoices ==
  { <<>>,
    <<TextLine("t1", 20), StatusMarker(PR_STATUS.MERGED)>>,
    <<TextLine("t1", 20), StatusMarker(PR_STATUS.CLOSED)>> }

\* comment texts
CommentBodies ==
  { <<>>,
    <<"@", "a", " ", "@", "c", "-", " ", "@", "a">>,
    <<"a", "@", "-", "a", " ", "@", "c", "-", "b">> }

\* (author, body) of the comments delivered
CommentInputs ==
  {<<b, body>> : body \in CommentBodies} \cup {<<BotLogin, <<"@", "a">>>>}

NoInv ==
  [handler |-> "none", outcome |-> "none", eventName |-> Null, action |-> Null,
   reviewState |-> Null, author |-> NoHandle, body |-> <<>>, bodyBefore |-> <<>>,
   threadTs |-> Null, currentStatus |-> Null, newStatus |-> Null,
   targetUsers |-> <<>>, targetSlackIds |-> <<>>,
   reviewerSlackIds |-> <<>>, reviewerSource |-> <<>>, authorSlackId |-> Null,
   calls |-> <<>>, reply |-> NoMsg, readFailed |-> FALSE]

\* no pure function is being applied
NoFn == [name |-> "none", args |-> <<>>, done |-> FALSE, out |-> Null]

\* no concurrent runs
NoRace == [start |-> Null, runs |-> <<>>]

\* no run is followed step by step
NoRun == [event |-> Null, pc |-> "none", i |-> 0, j |-> 0, n |-> 0, m |-> 0,
          outcome |-> "none"]

\* a PR that has just been created, before its first delivery
Init ==
  /\ config \in LifecycleConfigs
  /\ pr \in [author : {a}, body : BodyChoices, requested_reviewers : {<<a, b>>},
             draft : BOOLEAN, opened : {FALSE}]
  /\ repoFiles = [changedFiles |-> <<FileSX, FileD>>, codeowners |-> OwnersFile]
  /\ channel = <<>>
  /\ nextTs = 1
  /\ deliveries = 0
  /\ inv = NoInv
  /\ fn = NoFn
  /\ race = NoRace
  /\ run = NoRun

\* parsePRData applied to the PR as the code host holds it
parsePRData(p) ==
  [author |-> p.author, body |-> parsePRBody(p.body), isDraft |-> p.draft,
   reviewers |-> p.requested_reviewers]

\* ------------------------------------------------------------------------
\* handlePROpened
\* ------------------------------------------------------------------------

\* mutant: a PR nobody is to review is not announced
handlePROpenedSkipsEmpty(action, fail) ==
  LET prNow == [pr EXCEPT !.opened = TRUE,
                          !.draft = IF action = "ready_for_review" THEN FALSE ELSE @]
      prData == parsePRData(prNow)
      authorSlackId == mapGitHubUserToSlack(prData.author, config)
      codeOwners == getCodeOwners(repoFiles.changedFiles, repoFiles.codeowners)
      agg == AggregateReviewers(prData, codeOwners, config)
      initialStatus == PR_STATUS.REVIEW_PENDING
      message == createPRNotificationMessage(prData, agg.reviewerSlackIds,
                                             authorSlackId, initialStatus)
      ts == ToString(nextTs)
      sent == fail # "send"
      written == sent /\ fail # "write"
      base == [NoInv EXCEPT !.handler = "handlePROpened", !.eventName = "pull_request",
                            !.action = action, !.bodyBefore = pr.body,
                            !.reviewerSlackIds = agg.reviewerSlackIds,
                            !.reviewerSource = agg.reviewerSource,
                            !.authorSlackId = authorSlackId,
                            !.newStatus = initialStatus]
  IN IF agg.reviewerSlackIds = <<>>
     THEN /\ inv' = [base EXCEPT !.outcome = "skipped"]
          /\ pr' = prNow
          /\ UNCHANGED <<config, repoFiles, channel, nextTs>>
     ELSE
     /\ channel' = IF sent THEN ChatPost(channel, ts, Null, message) ELSE channel
     /\ nextTs' = IF sent THEN nextTs + 1 ELSE nextTs
     /\ pr' = IF written
              THEN [prNow EXCEPT !.body = AppendPointer(prData.body, ts, initialStatus)]
              ELSE prNow
     /\ inv' = [base EXCEPT
                  !.outcome = IF written THEN "completed" ELSE "failed",
                  !.threadTs = IF sent THEN ts ELSE Null,
                  !.calls = <<Call("chat.postMessage", IF sent THEN ts ELSE Null, Null, sent)>>
                            \o (IF sent THEN <<Call("pulls.update", Null, Null, written)>>
                                ELSE <<>>)]
     /\ UNCHANGED <<config, repoFiles>>

\* fail names the external call that throws in this run: "none", "send"
\* (chat.postMessage) or "write" (pulls.update)
handlePROpened(action, fail) ==
  LET prNow == [pr EXCEPT !.opened = TRUE,
                          !.draft = IF action = "ready_for_review" THEN FALSE ELSE @]
      prData == parsePRData(prNow)
      authorSlackId == mapGitHubUserToSlack(prData.author, config)
      codeOwners == getCodeOwners(repoFiles.changedFiles, repoFiles.codeowners)
      agg == AggregateReviewers(prData, codeOwners, config)
      initialStatus == PR_STATUS.REVIEW_PENDING
      message == createPRNotificationMessage(prData, agg.reviewerSlackIds,
                                             authorSlackId, initialStatus)
      ts == ToString(nextTs)
      sent == fail # "send"
      written == sent /\ fail # "write"
      base == [NoInv EXCEPT !.handler = "handlePROpened", !.eventName = "pull_request",
                            !.action = action, !.bodyBefore = pr.body,
                            !.reviewerSlackIds = agg.reviewerSlackIds,
                            !.reviewerSource = agg.reviewerSource,
                            !.authorSlackId = authorSlackId,
                            !.newStatus = initialStatus]
  IN /\ channel' = IF sent THEN ChatPost(channel, ts, Null, message) ELSE channel
     /\ nextTs' = IF sent THEN nextTs + 1 ELSE nextTs
     /\ pr' = IF written
              THEN [prNow EXCEPT !.body = AppendPointer(prData.body, ts, initialStatus)]
              ELSE prNow
     /\ inv' = [base EXCEPT
                  !.outcome = IF written THEN "completed" ELSE "failed",
                  !.threadTs = IF sent THEN ts ELSE Null,
                  !.calls = <<Call("chat.postMessage", IF sent THEN ts ELSE Null, Null, sent)>>
                            \o (IF sent THEN <<Call("pulls.update", Null, Null, written)>>
                                ELSE <<>>)]
     /\ UNCHANGED <<config, repoFiles>>

\* ------------------------------------------------------------------------
\* handleComment
\* ------------------------------------------------------------------------

\* mutant: a failed edit of the head message is logged and the run goes on
UpdateStepSwallowsEditFailure(threadTs, newStatus, fail) ==
  LET body1 == updatePRStatus(pr.body, newStatus)
      prData == [parsePRData(pr) EXCEPT !.body = body1]
      allReviewers == Uniq(SelectSeq(pr.requested_reviewers, LAMBDA r : r # pr.author))
      reviewerSlackIds == mapGitHubUsersToSlack(allReviewers, config)
      authorSlackIdForUpdate == mapGitHubUserToSlack(pr.author, config)
      updatedMessage == createPRNotificationMessage(prData, reviewerSlackIds,
                                                    authorSlackIdForUpdate, newStatus)
  IN IF fail = "updateStatus"
     THEN [ok |-> FALSE, body |-> pr.body, channel |-> channel,
           calls |-> <<Call("pulls.update", Null, Null, FALSE)>>]
     ELSE IF fail = "getPR"
     THEN [ok |-> FALSE, body |-> body1, channel |-> channel,
           calls |-> <<Call("pulls.update", Null, Null, TRUE)>>]
     ELSE IF fail = "update" \/ ~HasMessage(channel, threadTs)
     THEN [ok |-> TRUE, body |-> body1, channel |-> channel,
           calls |-> <<Call("pulls.update", Null, Null, TRUE),
                       Call("chat.update", threadTs, Null, FALSE)>>]
     ELSE [ok |-> TRUE, body |-> body1,
           channel |-> ChatUpdate(channel, threadTs, updatedMessage),
           calls |-> <<Call("pulls.update", Null, Null, TRUE),
                       Call("chat.update", threadTs, Null, TRUE)>>]

\* mutant: the update recomputes the reviewers as handlePROpened does, code
\* owners and default reviewers included
UpdateStepRecomputesOwners(threadTs, newStatus, fail) ==
  LET body1 == updatePRStatus(pr.body, newStatus)
      prData == [parsePRData(pr) EXCEPT !.body = body1]
      reviewerSlackIds ==
        AggregateReviewers(prData, getCodeOwners(repoFiles.changedFiles, repoFiles.codeowners),
                           config).reviewerSlackIds
      authorSlackIdForUpdate == mapGitHubUserToSlack(pr.author, config)
      updatedMessage == createPRNotificationMessage(prData, reviewerSlackIds,
                                                    authorSlackIdForUpdate, newStatus)
  IN IF fail = "updateStatus"
     THEN [ok |-> FALSE, body |-> pr.body, channel |-> channel,
           calls |-> <<Call("pulls.update", Null, Null, FALSE)>>]
     ELSE IF fail = "getPR"
     THEN [ok |-> FALSE, body |-> body1, channel |-> channel,
           calls |-> <<Call("pulls.update", Null, Null, TRUE)>>]
     ELSE IF fail = "update" \/ ~HasMessage(channel, threadTs)
     THEN [ok |-> FALSE, body |-> body1, channel |-> channel,
           calls |-> <<Call("pulls.update", Null, Null, TRUE),
                       Call("chat.update", threadTs, Null, FALSE)>>]
     ELSE [ok |-> TRUE, body |-> body1,
           channel |-> ChatUpdate(channel, threadTs, updatedMessage),
           calls |-> <<Call("pulls.update", Null, Null, TRUE),
                       Call("chat.update", threadTs, Null, TRUE)>>]

\* mutant: the status update writes the body without its thread-timestamp
\* marker
UpdateStepDropsTimestamp(threadTs, newStatus, fail) ==
  LET body1 == updatePRStatus(SelectSeq(pr.body, LAMBDA l : l.k # "ts"), newStatus)
      prData == [parsePRData(pr) EXCEPT !.body = body1]
      allReviewers == Uniq(SelectSeq(pr.requested_reviewers, LAMBDA r : r # pr.author))
      reviewerSlackIds == mapGitHubUsersToSlack(allReviewers, config)
      authorSlackIdForUpdate == mapGitHubUserToSlack(pr.author, config)
      updatedMessage == createPRNotificationMessage(prData, reviewerSlackIds,
                                                    authorSlackIdForUpdate, newStatus)
  IN IF fail = "updateStatus"
     THEN [ok |-> FALSE, body |-> pr.body, channel |-> channel,
           calls |-> <<Call("pulls.update", Null, Null, FALSE)>>]
     ELSE IF fail = "getPR"
     THEN [ok |-> FALSE, body |-> body1, channel |-> channel,
           calls |-> <<Call("pulls.update", Null, Null, TRUE)>>]
     ELSE IF fail = "update" \/ ~HasMessage(channel, threadTs)
     THEN [ok |-> FALSE, body |-> body1, channel |-> channel,
           calls |-> <<Call("pulls.update", Null, Null, TRUE),
                       Call("chat.update", threadTs, Null, FALSE)>>]
     ELSE [ok |-> TRUE, body |-> body1,
           channel |-> ChatUpdate(channel, threadTs, updatedMessage),
           calls |-> <<Call("pulls.update", Null, Null, TRUE),
                       Call("chat.update", threadTs, Null, TRUE)>>]

\* the status update of handleComment (lines 148-200): the marker is written,
\* the PR is read back, the head message is rebuilt and edited in place
UpdateStep(threadTs, newStatus, fail) ==
  LET body1 == updatePRStatus(pr.body, newStatus)
      prData == [parsePRData(pr) EXCEPT !.body = body1]
      allReviewers == Uniq(SelectSeq(pr.requested_reviewers, LAMBDA r : r # pr.author))
      reviewerSlackIds == mapGitHubUsersToSlack(allReviewers, config)
      authorSlackIdForUpdate == mapGitHubUserToSlack(pr.author, config)
      updatedMessage == createPRNotificationMessage(prData, reviewerSlackIds,
                                                    authorSlackIdForUpdate, newStatus)
  IN IF fail = "updateStatus"
     THEN [ok |-> FALSE, body |-> pr.body, channel |-> channel,
           calls |-> <<Call("pulls.update", Null, Null, FALSE)>>]
     ELSE IF fail = "getPR"
     THEN [ok |-> FALSE, body |-> body1, channel |-> channel,
           calls |-> <<Call("pulls.update", Null, Null, TRUE)>>]
     ELSE IF fail = "update" \/ ~HasMessage(channel, threadTs)
     THEN [ok |-> FALSE, body |-> body1, channel |-> channel,
           calls |-> <<Call("pulls.update", Null, Null, TRUE),
                       Call("chat.update", threadTs, Null, FALSE)>>]
     ELSE [ok |-> TRUE, body |-> body1,
           channel |-> ChatUpdate(channel, threadTs, updatedMessage),
           calls |-> <<Call("pulls.update", Null, Null, TRUE),
                       Call("chat.update", threadTs, Null, TRUE)>>]

\* what the reply step leaves behind, from the resolved targets
ReplyResult(ch, threadTs, targetUsers, targetSlackIds, message, verdictReadFails, fail) ==
  LET ts == ToString(nextTs)
      none == [outcome |-> "completed", channel |-> ch, nextTs |-> nextTs,
               calls |-> <<>>, targetUsers |-> targetUsers,
               targetSlackIds |-> targetSlackIds, reply |-> NoMsg]
  IN IF verdictReadFails
     THEN [none EXCEPT !.outcome = "failed", !.targetUsers = <<>>, !.targetSlackIds = <<>>]
     ELSE IF Len(targetUsers) = 0
     THEN [none EXCEPT !.outcome = "skipped"]
     ELSE IF Len(targetSlackIds) = 0
     THEN [none EXCEPT !.outcome = "skipped"]
     ELSE IF fail = "reply"
     THEN [none EXCEPT !.outcome = "failed",
                       !.calls = <<Call("chat.postMessage", Null, threadTs, FALSE)>>]
     ELSE [none EXCEPT !.channel = ChatPost(ch, ts, threadTs, message),
                       !.nextTs = nextTs + 1,
                       !.reply = message,
                       !.calls = <<Call("chat.postMessage", ts, threadTs, TRUE)>>]

\* mutant: the reply goes to the thread of the newest pointer of the body
ReplyStepNewestThread(commentData, threadTs, ch, fail) ==
  LET targetUsers == TargetUsers(commentData.reviewState, pr.author, commentData.body)
      targetSlackIds == mapGitHubUsersToSlack(targetUsers, config)
      authorSlackId == mapGitHubUserToSlack(commentData.author, config)
      message == createCommentMessage(commentData, targetSlackIds, authorSlackId)
      markers == {i \in 1..Len(pr.body) : pr.body[i].k = "ts"}
      newest == IF markers = {} THEN threadTs
                ELSE pr.body[CHOOSE i \in markers : \A k \in markers : k <= i].v
  IN ReplyResult(ch, newest, targetUsers, targetSlackIds, message,
                 IsVerdict(commentData.reviewState) /\ fail = "getPRAuthor", fail)

\* the thread reply of handleComment (lines 202-249)
ReplyStep(commentData, threadTs, ch, fail) ==
  LET targetUsers == TargetUsers(commentData.reviewState, pr.author, commentData.body)
      targetSlackIds == mapGitHubUsersToSlack(targetUsers, config)
      authorSlackId == mapGitHubUserToSlack(commentData.author, config)
      message == createCommentMessage(commentData, targetSlackIds, authorSlackId)
  IN ReplyResult(ch, threadTs, targetUsers, targetSlackIds, message,
                 IsVerdict(commentData.reviewState) /\ fail = "getPRAuthor", fail)

\* mutant: the run goes on although no thread pointer was found
CommentDoneNoPointerCheck(base, seen, threadTs, upd, rep, botAuthor, readFailed) ==
  IF botAuthor
  THEN /\ inv' = [base EXCEPT !.outcome = "skipped"]
       /\ UNCHANGED <<pr, channel, nextTs>>
  ELSE IF ~upd.ok
  THEN /\ inv' = [seen EXCEPT !.outcome = "failed", !.calls = upd.calls,
                              !.readFailed = readFailed]
       /\ pr' = [pr EXCEPT !.body = upd.body]
       /\ channel' = upd.channel
       /\ UNCHANGED nextTs
  ELSE /\ inv' = [seen EXCEPT !.outcome = rep.outcome,
                              !.calls = upd.calls \o rep.calls,
                              !.targetUsers = rep.targetUsers,
                              !.reply = rep.reply,
                              !.targetSlackIds = rep.targetSlackIds,
                              !.readFailed = readFailed]
       /\ pr' = [pr EXCEPT !.body = upd.body]
       /\ channel' = rep.channel
       /\ nextTs' = rep.nextTs

\* mutant: the author is tested after the status update, before the reply
CommentDoneBotTestLate(base, seen, threadTs, upd, rep, botAuthor, readFailed) ==
  IF threadTs = Null
  THEN /\ inv' = [base EXCEPT !.outcome = "skipped", !.readFailed = readFailed]
       /\ UNCHANGED <<pr, channel, nextTs>>
  ELSE IF ~upd.ok
  THEN /\ inv' = [seen EXCEPT !.outcome = "failed", !.calls = upd.calls]
       /\ pr' = [pr EXCEPT !.body = upd.body]
       /\ channel' = upd.channel
       /\ UNCHANGED nextTs
  ELSE IF botAuthor
  THEN /\ inv' = [seen EXCEPT !.outcome = "skipped", !.calls = upd.calls]
       /\ pr' = [pr EXCEPT !.body = upd.body]
       /\ channel' = upd.channel
       /\ UNCHANGED nextTs
  ELSE /\ inv' = [seen EXCEPT !.outcome = rep.outcome,
                              !.calls = upd.calls \o rep.calls,
                              !.targetUsers = rep.targetUsers,
                              !.reply = rep.reply,
                              !.targetSlackIds = rep.targetSlackIds]
       /\ pr' = [pr EXCEPT !.body = upd.body]
       /\ channel' = rep.channel
       /\ nextTs' = rep.nextTs

\* the state a run of handleComment leaves behind
CommentDone(base, seen, threadTs, upd, rep, botAuthor, readFailed) ==
  IF botAuthor
  THEN /\ inv' = [base EXCEPT !.outcome = "skipped"]
       /\ UNCHANGED <<pr, channel, nextTs>>
  ELSE IF threadTs = Null
  THEN /\ inv' = [base EXCEPT !.outcome = "skipped", !.readFailed = readFailed]
       /\ UNCHANGED <<pr, channel, nextTs>>
  ELSE IF ~upd.ok
  THEN /\ inv' = [seen EXCEPT !.outcome = "failed", !.calls = upd.calls]
       /\ pr' = [pr EXCEPT !.body = upd.body]
       /\ channel' = upd.channel
       /\ UNCHANGED nextTs
  ELSE /\ inv' = [seen EXCEPT !.outcome = rep.outcome,
                              !.calls = upd.calls \o rep.calls,
                              !.targetUsers = rep.targetUsers,
                              !.reply = rep.reply,
                              !.targetSlackIds = rep.targetSlackIds]
       /\ pr' = [pr EXCEPT !.body = upd.body]
       /\ channel' = rep.channel
       /\ nextTs' = rep.nextTs

\* fail names the external call that throws in this run: "none",
\* "getThreadTs", "updateStatus", "getPR", "update", "getPRAuthor", "reply"
handleComment(eventName, reviewState, author, body, fail) ==
  LET commentData == [eventType |-> eventName, author |-> author, body |-> body,
                      reviewState |-> reviewState]
      base == [NoInv EXCEPT !.handler = "handleComment", !.eventName = eventName,
                            !.reviewState = reviewState, !.author = author,
                            !.body = body, !.bodyBefore = pr.body]
      threadTs == getSlackThreadTs(pr.body, fail = "getThreadTs")
      currentStatus == getPRStatus(pr.body)
      newStatus == NextStatus(currentStatus, reviewState)
      changed == StatusChanged(newStatus, currentStatus)
      upd == IF changed THEN UpdateStep(threadTs, newStatus, fail)
             ELSE [ok |-> TRUE, body |-> pr.body, channel |-> channel, calls |-> <<>>]
      rep == ReplyStep(commentData, threadTs, upd.channel, fail)
      seen == [base EXCEPT !.threadTs = threadTs, !.currentStatus = currentStatus,
                           !.newStatus = newStatus]
  IN /\ UNCHANGED <<config, repoFiles>>
     /\ CommentDone(base, seen, threadTs, upd, rep, author = BotLogin,
                    fail = "getThreadTs")

\* ------------------------------------------------------------------------
\* run: one webhook delivery
\* ------------------------------------------------------------------------

PRFailures == {"none", "send", "write"}

\* "none", or one of the external calls a run of handleComment makes on this
\* PR for this event
CommentFailures(reviewState, author) ==
  {"none"} \cup
  (IF author = BotLogin THEN {}
   ELSE {"getThreadTs"} \cup
        (IF getSlackThreadTs(pr.body, FALSE) = Null THEN {}
         ELSE (IF StatusChanged(NextStatus(getPRStatus(pr.body), reviewState),
                                getPRStatus(pr.body))
               THEN {"updateStatus", "getPR", "update"} ELSE {})
              \cup (IF IsVerdict(reviewState) THEN {"getPRAuthor"} ELSE {})
              \cup {"reply"}))

\* eventName === 'pull_request': opened once, then ready_for_review or closed
RunPullRequest ==
  /\ deliveries < MaxDeliveries
  /\ \E action \in {"opened", "ready_for_review", "closed"}, fail \in PRFailures :
       /\ action = "opened" => ~pr.opened
       /\ action = "ready_for_review" => pr.opened /\ pr.draft
       /\ action = "closed" => pr.opened
       /\ handlePROpened(action, fail)
  /\ deliveries' = deliveries + 1
  /\ UNCHANGED <<fn, race, run>>

\* eventName === 'issue_comment' or 'pull_request_review_comment'
RunComment ==
  /\ deliveries < MaxDeliveries
  /\ pr.opened
  /\ \E eventName \in {"issue_comment", "pull_request_review_comment"},
        in \in CommentInputs :
       \E fail \in CommentFailures(Null, in[1]) :
         handleComment(eventName, Null, in[1], in[2], fail)
  /\ deliveries' = deliveries + 1
  /\ UNCHANGED <<fn, race, run>>

\* eventName === 'pull_request_review'
RunReview ==
  /\ deliveries < MaxDeliveries
  /\ pr.opened
  /\ \E reviewState \in {"approved", "changes_requested", "commented"},
        in \in CommentInputs :
       \E fail \in CommentFailures(reviewState, in[1]) :
         handleComment("pull_request_review", reviewState, in[1], in[2], fail)
  /\ deliveries' = deliveries + 1
  /\ UNCHANGED <<fn, race, run>>

\* any other event name: a warning, nothing else
RunUnsupported ==
  /\ deliveries < MaxDeliveries
  /\ inv' = [NoInv EXCEPT !.handler = "unsupported", !.eventName = "push",
                          !.outcome = "completed", !.bodyBefore = pr.body]
  /\ deliveries' = deliveries + 1
  /\ UNCHANGED <<config, pr, repoFiles, channel, nextTs, fn, race, run>>

\* a payload without the object the parser expects: a pull_request event
\* without pull_request (parsePRData throws), an issue_comment on an issue
\* that is no pull request (parseCommentData throws); run() catches and
\* marks the run failed
RunMalformed ==
  /\ deliveries < MaxDeliveries
  /\ \E eventName \in {"pull_request", "issue_comment"} :
       inv' = [NoInv EXCEPT
                 !.handler = IF eventName = "pull_request"
                             THEN "parsePRData" ELSE "parseCommentData",
                 !.eventName = eventName,
                 !.outcome = "failed", !.bodyBefore = pr.body]
  /\ deliveries' = deliveries + 1
  /\ UNCHANGED <<config, pr, repoFiles, channel, nextTs, fn, race, run>>

Next == RunPullRequest \/ RunComment \/ RunReview \/ RunUnsupported \/ RunMalformed

Spec == Init /\ [][Next]_vars

\* PR-opened only, over every configuration, reviewer list and repository
InitOpened ==
  /\ config \in [email_mappings : MappingChoices,
                 default_reviewers : DefaultChoices,
                 auto_match_by_email : BOOLEAN]
  /\ pr \in [author : {a}, body : {<<>>, <<TextLine("t1", 20)>>},
             requested_reviewers : ReviewerChoices,
             draft : BOOLEAN, opened : {FALSE}]
  /\ repoFiles \in RepoChoices
  /\ channel = <<>>
  /\ nextTs = 1
  /\ deliveries = 0
  /\ inv = NoInv
  /\ fn = NoFn
  /\ race = NoRace
  /\ run = NoRun

NextOpened == deliveries < MaxPRDeliveries /\ RunPullRequest

SpecOpened == InitOpened /\ [][NextOpened]_vars

\* ------------------------------------------------------------------------
\* The pure functions, applied to inputs drawn from bounded sets
\* ------------------------------------------------------------------------

SeqsUpTo(S, n) == UNION {[1..k -> S] : k \in 0..n}

\* comment texts: '@', handle characters, a hyphen, a separator
MentionChars == {"@", "a", "b", "-", " "}
MentionTexts == SeqsUpTo(MentionChars, MaxTextLen)

\* file paths and ownership patterns
PathChars == {"*", ".", "/", "s"}
Paths == SeqsUpTo(PathChars, MaxPathLen) \ {<<>>}

\* email_mappings whose email for a and c makes the chat lookup throw
ThrowingMappings ==
  [h \in Handles |-> CASE h = a -> "e@co" [] h = b -> "b@co" [] OTHER -> "e@co"]

MapperConfigs ==
  [email_mappings : MappingChoices \cup {ThrowingMappings},
   default_reviewers : {<<>>},
   auto_match_by_email : BOOLEAN]

\* handles given to the mapper; d has no mapping and its profile request throws
MapperHandles == Handles \cup {d}

\* lines of a CODEOWNERS file, tokenised
OwnerLines ==
  { <<<<"*">>, <<"@", "a">>>>,
    <<<<"*", ".", "j">>, <<"@", "b">>, <<"@", "c">>>>,
    <<<<"s", "/">>, <<"@", "c">>, <<"x">>>>,
    <<<<"/", "d">>>>,
    <<<<"#">>, <<"o">>>>,
    <<<<"d">>, <<"x">>>> }

FileQ == <<"q">>

\* PR bodies a pointer is written into; some hold text that reads as a marker
PointerBodies ==
  { <<>>,
    <<TextLine("t1", 20)>>,
    <<TextLine("t1", 20), TsMarker("9")>>,
    <<TextLine("t1", 20), StatusMarker(PR_STATUS.MERGED)>>,
    <<TextLine("t1", 20), Blank, TsMarker("9"), StatusMarker(PR_STATUS.IN_REVIEW)>> }

FnInput(name, args) == [name |-> name, args |-> args, done |-> FALSE, out |-> Null]

\* what pulls.listFiles answers: it throws, or it lists the changed files
FileListings ==
  {[ok |-> FALSE, files |-> <<>>]}
  \cup {[ok |-> TRUE, files |-> fs] : fs \in {<<>>, <<FileSX>>, <<FileQ, FileD>>}}

\* a CODEOWNERS file no changed file matches
ForeignOwnersFile == << <<<<"/", "z">>, <<"@", "a">>>> >>

\* what repos.getContent answers for a candidate path: it throws, it returns
\* no content, or it returns the content of a CODEOWNERS file
ContentResponses ==
  { [res |-> "throws", content |-> <<>>],
    [res |-> "empty", content |-> <<>>],
    [res |-> "file", content |-> OwnersFile],
    [res |-> "file", content |-> ForeignOwnersFile] }

\* lines of a PR description: empty, whitespace only, and text of lengths
\* around a third of the limit and around the limit
SummaryLines ==
  {Blank, [k |-> "blank", v |-> "", len |-> 2]}
  \cup {TextLine("t", n) : n \in {1, 66, 67, 197, 201}}

\* the inputs of each function
MapperHandleLists == SeqsUpTo(MapperHandles, MaxHandles)
ChangedFileLists == SeqsUpTo({FileSX, FileD, FileQ}, MaxFiles)
OwnersFiles == SeqsUpTo(OwnerLines, MaxRules)

InitFn ==
  /\ \/ \E text \in MentionTexts : fn = FnInput("extractMentions", <<text>>)
     \/ \E file \in Paths, pattern \in Paths :
          fn = FnInput("matchPattern", <<file, pattern>>)
     \/ \E h \in MapperHandles, cfg \in MapperConfigs :
          fn = FnInput("mapGitHubUserToSlack", <<h, cfg>>)
     \/ \E hs \in MapperHandleLists, cfg \in MapperConfigs :
          fn = FnInput("mapGitHubUsersToSlack", <<hs, cfg>>)
     \/ \E files \in ChangedFileLists, content \in OwnersFiles :
          fn = FnInput("getCodeOwners", <<files, content>>)
     \/ \E body \in PointerBodies, ts \in {"1", "2"}, status \in StatusValues :
          fn = FnInput("pointer", <<body, ts, status>>)
     \/ \E body \in SeqsUpTo(SummaryLines, MaxBodyLines) :
          fn = FnInput("summarizePRBody", <<body>>)
     \/ \E file \in ConfigFiles, userMappings \in MappingChoices :
          fn = FnInput("loadConfig", <<file, userMappings>>)
     \/ \E listing \in FileListings, responses \in [1..3 -> ContentResponses] :
          fn = FnInput("getCodeOwnersOfPR", <<listing, responses>>)
  /\ config = [email_mappings |-> NoMappings, default_reviewers |-> <<>>,
               auto_match_by_email |-> TRUE]
  /\ pr = [author |-> a, body |-> <<>>, requested_reviewers |-> <<>>,
           draft |-> FALSE, opened |-> FALSE]
  /\ repoFiles = [changedFiles |-> <<>>, codeowners |-> <<>>]
  /\ channel = <<>>
  /\ nextTs = 1
  /\ deliveries = 0
  /\ inv = NoInv
  /\ race = NoRace
  /\ run = NoRun

Returns(name, out) ==
  /\ fn.name = name
  /\ ~fn.done
  /\ fn' = [fn EXCEPT !.done = TRUE, !.out = out]
  /\ UNCHANGED <<config, pr, repoFiles, channel, nextTs, deliveries, inv, race, run>>

ApplyExtractMentions == Returns("extractMentions", extractMentions(fn.args[1]))

ApplyMatchPattern == Returns("matchPattern", matchPattern(fn.args[1], fn.args[2]))

\* mutant: a resolution through the public email is remembered in the
\* configuration's mapping table
ApplyMapUserRecordsMapping ==
  /\ fn.name = "mapGitHubUserToSlack"
  /\ ~fn.done
  /\ fn' = [fn EXCEPT !.done = TRUE,
                      !.out = [id |-> mapGitHubUserToSlack(fn.args[1], fn.args[2]),
                               calls |-> mapGitHubUserToSlackCalls(fn.args[1], fn.args[2])]]
  /\ config' = [config EXCEPT
                  !.email_mappings =
                     [h \in Handles |->
                        IF h = fn.args[1] /\ getGitHubUserEmail(h) # Null
                        THEN getGitHubUserEmail(h) ELSE @[h]]]
  /\ UNCHANGED <<pr, repoFiles, channel, nextTs, deliveries, inv, race, run>>

ApplyMapUser ==
  Returns("mapGitHubUserToSlack",
          [id |-> mapGitHubUserToSlack(fn.args[1], fn.args[2]),
           calls |-> mapGitHubUserToSlackCalls(fn.args[1], fn.args[2])])

\* the same handle is resolved once more under the same configuration
ApplyMapUserAgain ==
  /\ fn.name = "mapGitHubUserToSlack"
  /\ fn.done
  /\ fn' = [fn EXCEPT
              !.name = "mapGitHubUserToSlack twice",
              !.out = [first |-> fn.out.id,
                       second |-> mapGitHubUserToSlack(fn.args[1], fn.args[2]),
                       calls |-> fn.out.calls
                                 \o mapGitHubUserToSlackCalls(fn.args[1], fn.args[2])]]
  /\ UNCHANGED <<config, pr, repoFiles, channel, nextTs, deliveries, inv, race, run>>

ApplyMapUsers ==
  Returns("mapGitHubUsersToSlack", mapGitHubUsersToSlack(fn.args[1], fn.args[2]))

ApplyGetCodeOwners == Returns("getCodeOwners", getCodeOwners(fn.args[1], fn.args[2]))

\* the pointer is appended as handlePROpened appends it and read back as
\* handleComment reads it
ApplyPointer ==
  Returns("pointer",
          [ts |-> getSlackThreadTs(AppendPointer(parsePRBody(fn.args[1]), fn.args[2], fn.args[3]),
                                   FALSE),
           status |-> getPRStatus(AppendPointer(parsePRBody(fn.args[1]), fn.args[2], fn.args[3]))])

ApplyLoadConfig == Returns("loadConfig", loadConfig(fn.args[1], fn.args[2]))

ApplyGetCodeOwnersOfPR ==
  Returns("getCodeOwnersOfPR", getCodeOwnersOfPR(fn.args[1], fn.args[2]))

ApplySummarizePRBody == Returns("summarizePRBody", summarizePRBody(fn.args[1]))

NextFn ==
  \/ ApplyExtractMentions
  \/ ApplyMatchPattern
  \/ ApplyMapUser
  \/ ApplyMapUserAgain
  \/ ApplyMapUsers
  \/ ApplyGetCodeOwners
  \/ ApplyPointer
  \/ ApplyLoadConfig
  \/ ApplyGetCodeOwnersOfPR
  \/ ApplySummarizePRBody

SpecFn == InitFn /\ [][NextFn]_vars

\* ------------------------------------------------------------------------
\* Two runs of handleComment on the same PR at the same time
\* ------------------------------------------------------------------------

\* the events of the two runs: a comment, and the three review verdicts
RaceEvents ==
  { [eventName |-> "issue_comment", reviewState |-> Null],
    [eventName |-> "pull_request_review", reviewState |-> "approved"],
    [eventName |-> "pull_request_review", reviewState |-> "changes_requested"],
    [eventName |-> "pull_request_review", reviewState |-> "commented"] }

\* the statuses a PR that was opened and reviewed can hold
HandledStatuses ==
  {PR_STATUS.REVIEW_PENDING, PR_STATUS.IN_REVIEW, PR_STATUS.APPROVED,
   PR_STATUS.CHANGES_REQUESTED}

Runs == {1, 2}

\* a run before its first step
RaceRun(event) ==
  [pc |-> "getSlackThreadTs", eventName |-> event.eventName,
   reviewState |-> event.reviewState, threadTs |-> Null,
   currentStatus |-> Null, newStatus |-> Null, message |-> NoMsg]

\* the PR is open, its head message is sent, its pointer is written, and
\* two deliveries have started
InitRace ==
  /\ config = [email_mappings |-> SharedMappings, default_reviewers |-> <<>>,
               auto_match_by_email |-> FALSE]
  /\ \E status \in HandledStatuses, draft \in BOOLEAN :
       LET p0 == [author |-> a, body |-> <<TextLine("t1", 20)>>,
                  requested_reviewers |-> <<a, b>>, draft |-> draft, opened |-> TRUE]
           body == updatePRStatus(AppendPointer(parsePRBody(p0.body), "1",
                                                PR_STATUS.REVIEW_PENDING), status)
           head == createPRNotificationMessage(
                     [parsePRData(p0) EXCEPT !.body = body],
                     mapGitHubUsersToSlack(<<b>>, config),
                     mapGitHubUserToSlack(a, config), status)
       IN /\ pr = [p0 EXCEPT !.body = body]
          /\ channel = ChatPost(<<>>, "1", Null, head)
          /\ \E e1, e2 \in RaceEvents :
               race = [start |-> status,
                       runs |-> [r \in Runs |-> RaceRun(IF r = 1 THEN e1 ELSE e2)]]
  /\ repoFiles = [changedFiles |-> <<FileSX, FileD>>, codeowners |-> OwnersFile]
  /\ nextTs = 2
  /\ deliveries = 0
  /\ inv = NoInv
  /\ fn = NoFn
  /\ run = NoRun

\* run r is at step pc and goes on as the record next says
RaceStep(r, pc, next) ==
  /\ race.runs[r].pc = pc
  /\ race' = [race EXCEPT !.runs[r] = next]

\* lines 113-123: the pointer is read; without one the run ends
RaceGetSlackThreadTs(r) ==
  LET threadTs == getSlackThreadTs(pr.body, FALSE)
  IN /\ RaceStep(r, "getSlackThreadTs",
                 [race.runs[r] EXCEPT !.threadTs = threadTs,
                                      !.pc = IF threadTs = Null THEN "done"
                                             ELSE "getPRStatus"])
     /\ UNCHANGED <<config, pr, repoFiles, channel, nextTs, deliveries, inv, fn, run>>

\* lines 125-146: the status is read and the new status is derived from it
RaceGetPRStatus(r) ==
  LET currentStatus == getPRStatus(pr.body)
      newStatus == NextStatus(currentStatus, race.runs[r].reviewState)
  IN /\ RaceStep(r, "getPRStatus",
                 [race.runs[r] EXCEPT !.currentStatus = currentStatus,
                                      !.newStatus = newStatus,
                                      !.pc = IF StatusChanged(newStatus, currentStatus)
                                             THEN "updatePRStatus"
                                             ELSE "sendThreadReply"])
     /\ UNCHANGED <<config, pr, repoFiles, channel, nextTs, deliveries, inv, fn, run>>

\* lines 148-155: the new status is written into the body as it is now
RaceUpdatePRStatus(r) ==
  /\ RaceStep(r, "updatePRStatus", [race.runs[r] EXCEPT !.pc = "pulls.get"])
  /\ pr' = [pr EXCEPT !.body = updatePRStatus(pr.body, race.runs[r].newStatus)]
  /\ UNCHANGED <<config, repoFiles, channel, nextTs, deliveries, inv, fn, run>>

\* lines 157-193: the PR is read back and the head message is rebuilt
RacePullsGet(r) ==
  LET prData == parsePRData(pr)
      allReviewers == Uniq(SelectSeq(pr.requested_reviewers, LAMBDA x : x # pr.author))
      updatedMessage ==
        createPRNotificationMessage(prData, mapGitHubUsersToSlack(allReviewers, config),
                                    mapGitHubUserToSlack(pr.author, config),
                                    race.runs[r].newStatus)
  IN /\ RaceStep(r, "pulls.get",
                 [race.runs[r] EXCEPT !.message = updatedMessage,
                                      !.pc = "updateSlackMessage"])
     /\ UNCHANGED <<config, pr, repoFiles, channel, nextTs, deliveries, inv, fn, run>>

\* lines 195-197: the head message is edited in place
RaceUpdateSlackMessage(r) ==
  /\ RaceStep(r, "updateSlackMessage", [race.runs[r] EXCEPT !.pc = "sendThreadReply"])
  /\ channel' = ChatUpdate(channel, race.runs[r].threadTs, race.runs[r].message)
  /\ UNCHANGED <<config, pr, repoFiles, nextTs, deliveries, inv, fn, run>>

\* lines 202-249: the reply is sent into the thread, and the run ends
RaceSendThreadReply(r) ==
  LET commentData == [eventType |-> race.runs[r].eventName, author |-> b,
                      body |-> <<"@", "c">>, reviewState |-> race.runs[r].reviewState]
      rep == ReplyStep(commentData, race.runs[r].threadTs, channel, "none")
  IN /\ RaceStep(r, "sendThreadReply", [race.runs[r] EXCEPT !.pc = "done"])
     /\ channel' = rep.channel
     /\ nextTs' = rep.nextTs
     /\ deliveries' = deliveries + 1
     /\ UNCHANGED <<config, pr, repoFiles, inv, fn, run>>

NextRace ==
  \E r \in Runs :
    \/ RaceGetSlackThreadTs(r)
    \/ RaceGetPRStatus(r)
    \/ RaceUpdatePRStatus(r)
    \/ RacePullsGet(r)
    \/ RaceUpdateSlackMessage(r)
    \/ RaceSendThreadReply(r)

SpecRace == InitRace /\ [][NextRace]_vars

\* ------------------------------------------------------------------------
\* One run followed step by step: its calls, branches and loops
\* ------------------------------------------------------------------------

Terminal == {"completed", "skipped", "failed"}

\* the steps of handlePROpened and handleComment outside their loops, each
\* with the steps and outcomes it can lead to: a call returns or throws, a
\* throw is fatal unless the callee catches it, a test goes either way
Exits ==
  [parsePRData |-> {"mapAuthor", "failed"},
   mapAuthor |-> {"reviewers"},
   listFiles |-> {"paths", "codeOwners"},
   sendSlackMessage |-> {"pullsUpdate", "failed"},
   pullsUpdate |-> {"completed", "failed"},
   parseCommentData |-> {"getSlackThreadTs", "skipped", "failed"},
   getSlackThreadTs |-> {"getPRStatus", "skipped"},
   getPRStatus |-> {"updatePRStatus", "targetUsers", "failed"},
   updatePRStatus |-> {"pullsGet", "failed"},
   pullsGet |-> {"requestedReviewers", "failed"},
   mapAuthorForUpdate |-> {"updateSlackMessage"},
   updateSlackMessage |-> {"targetUsers", "failed"},
   targetUsers |-> {"getPRAuthor", "extractMentions"},
   getPRAuthor |-> {"extractMentions", "failed"},
   extractMentions |-> {"mapTargets", "skipped"},
   targetSlackIds |-> {"mapCommentAuthor", "skipped"},
   mapCommentAuthor |-> {"sendThreadReply"},
   sendThreadReply |-> {"completed", "failed"}]

\* the loops over a list, each with the step that follows it and the bound
\* on the length of its list
Loops ==
  [reviewers |-> [exit |-> "listFiles", bound |-> MaxHandles],
   codeOwners |-> [exit |-> "mapReviewers", bound |-> MaxHandles],
   mapReviewers |-> [exit |-> "defaultReviewers", bound |-> MaxHandles],
   defaultReviewers |-> [exit |-> "sendSlackMessage", bound |-> MaxHandles],
   requestedReviewers |-> [exit |-> "mapRequested", bound |-> MaxHandles],
   mapRequested |-> [exit |-> "mapAuthorForUpdate", bound |-> MaxHandles],
   mapTargets |-> [exit |-> "targetSlackIds", bound |-> MaxHandles]]

\* the candidate paths of the CODEOWNERS file
CandidatePaths == 3

\* the run as it enters a step: a loop starts at its first element, over a
\* list of some length within the bound
Entering(pc) ==
  IF pc \in DOMAIN Loops
  THEN {[run EXCEPT !.pc = pc, !.i = 0, !.j = 0, !.n = n, !.m = 0] :
          n \in 0..Loops[pc].bound}
  ELSE IF pc = "paths"
  THEN {[run EXCEPT !.pc = pc, !.i = 0, !.j = 0, !.n = n, !.m = 0] : n \in 1..MaxFiles}
  ELSE IF pc = "files"
  THEN {[run EXCEPT !.pc = pc, !.i = 0, !.j = 0, !.m = m] : m \in 0..MaxRules}
  ELSE {[run EXCEPT !.pc = pc, !.i = 0, !.j = 0, !.n = 0, !.m = 0]}

RunFrame == UNCHANGED <<config, pr, repoFiles, channel, nextTs, deliveries, inv, fn, race>>

\* a delivery has started
InitRun ==
  /\ run \in {[NoRun EXCEPT !.event = e, !.pc = "run", !.outcome = "running"] :
                e \in {"pull_request", "issue_comment", "pull_request_review",
                       "pull_request_review_comment", "push"}}
  /\ config = [email_mappings |-> NoMappings, default_reviewers |-> <<>>,
               auto_match_by_email |-> TRUE]
  /\ pr = [author |-> a, body |-> <<>>, requested_reviewers |-> <<>>,
           draft |-> FALSE, opened |-> FALSE]
  /\ repoFiles = [changedFiles |-> <<>>, codeowners |-> <<>>]
  /\ channel = <<>>
  /\ nextTs = 1
  /\ deliveries = 0
  /\ inv = NoInv
  /\ fn = NoFn
  /\ race = NoRace

\* run: a required input that is missing ends the run as failed; otherwise
\* the event name selects the handler and any other name ends the run with a
\* warning
RunRoute ==
  /\ run.pc = "run"
  /\ \/ run' = [run EXCEPT !.pc = "end", !.outcome = "failed"]
     \/ run' = IF run.event = "pull_request" THEN [run EXCEPT !.pc = "parsePRData"]
               ELSE IF run.event \in {"issue_comment", "pull_request_review",
                                      "pull_request_review_comment"}
               THEN [run EXCEPT !.pc = "parseCommentData"]
               ELSE [run EXCEPT !.pc = "end", !.outcome = "completed"]
  /\ RunFrame

\* a step outside the loops is made and the run goes on
RunStep ==
  /\ run.pc \in DOMAIN Exits
  /\ \E to \in Exits[run.pc] \ Terminal : run' \in Entering(to)
  /\ RunFrame

\* a step outside the loops ends the run: it returns early, it throws into
\* run's catch, or it was the last one
RunReturn ==
  /\ run.pc \in DOMAIN Exits
  /\ \E outcome \in Exits[run.pc] \cap Terminal :
       run' = [run EXCEPT !.pc = "end", !.outcome = outcome]
  /\ RunFrame

\* mutant: a lookup that fails makes the loop start over
RunLoopIterationRetries ==
  /\ run.pc \in DOMAIN Loops
  /\ run.i < run.n
  /\ \/ run' = [run EXCEPT !.i = run.i + 1]
     \/ run' = [run EXCEPT !.i = 0]
  /\ RunFrame

\* the body of a loop over a list is run for the next element
RunLoopIteration ==
  /\ run.pc \in DOMAIN Loops
  /\ run.i < run.n
  /\ run' = [run EXCEPT !.i = run.i + 1]
  /\ RunFrame

\* the list is exhausted
RunLoopDone ==
  /\ run.pc \in DOMAIN Loops
  /\ run.i = run.n
  /\ run' \in Entering(Loops[run.pc].exit)
  /\ RunFrame

\* the loop over the candidate paths: a path with content ends it, a path
\* without content or a request that throws moves on, no path left ends it
RunCandidatePath ==
  /\ run.pc = "paths"
  /\ IF run.j < CandidatePaths
     THEN \/ run' \in Entering("files")
          \/ run' = [run EXCEPT !.j = run.j + 1]
     ELSE run' \in Entering("codeOwners")
  /\ RunFrame

\* the loop over the changed files and, inside it, over the rules: a rule
\* that matches ends the inner loop
RunMatchRule ==
  /\ run.pc = "files"
  /\ IF run.i = run.n THEN run' \in Entering("codeOwners")
     ELSE IF run.j = run.m THEN run' = [run EXCEPT !.i = run.i + 1, !.j = 0]
     ELSE \/ run' = [run EXCEPT !.i = run.i + 1, !.j = 0]
          \/ run' = [run EXCEPT !.j = run.j + 1]
  /\ RunFrame

NextRun ==
  \/ RunRoute
  \/ RunStep
  \/ RunReturn
  \/ RunLoopIteration
  \/ RunLoopDone
  \/ RunCandidatePath
  \/ RunMatchRule

\* every step that can be made is made in the end: each call returns or throws
SpecRun == InitRun /\ [][NextRun]_vars /\ WF_vars(NextRun)

\* ------------------------------------------------------------------------
\* Properties
\* ------------------------------------------------------------------------

TypeOK ==
  /\ deliveries \in 0..MaxDeliveries
  /\ inv.outcome \in {"none", "completed", "skipped", "failed"}
  /\ getPRStatus(pr.body) \in StatusValues

\* the run reported in inv is a run of handleComment that read a pointer
\* and computed a next status
Computed == inv.handler = "handleComment" /\ inv.currentStatus # Null

HasCall(op, ok) == \E i \in 1..Len(inv.calls) : inv.calls[i].op = op /\ inv.calls[i].ok = ok

Attempted(op) == \E i \in 1..Len(inv.calls) : inv.calls[i].op = op

\* the head message of the thread the pointer names
HeadOf(ts) == CHOOSE m \in Range(channel) : m.ts = ts /\ m.thread_ts = Null

\* C1: in handleComment an event that is no approved / changes_requested
\* verdict moves the persisted status review-pending to in-review and leaves
\* every other persisted status as it is.
C1_CommentTransition ==
  (Computed /\ ~IsVerdict(inv.reviewState)) =>
    /\ inv.currentStatus = getPRStatus(inv.bodyBefore)
    /\ (inv.currentStatus = "review-pending" => inv.newStatus = "in-review")
    /\ (inv.currentStatus # "review-pending" => inv.newStatus = inv.currentStatus)
    /\ (inv.newStatus = "in-review" =>
          inv.currentStatus \in {"review-pending", "in-review"})

C1_Witness ==
  /\ Computed
  /\ inv.eventName = "pull_request_review_comment"
  /\ inv.currentStatus = "review-pending"
  /\ inv.newStatus = "in-review"
  /\ inv.outcome # "failed"
  /\ getPRStatus(pr.body) = "in-review"

\* C2: in handleComment a review with verdict approved gives next status
\* approved and one with verdict changes_requested gives changes-requested,
\* whatever the current status is; a run that does not fail persists it.
C2_VerdictSetsStatus ==
  (Computed /\ IsVerdict(inv.reviewState)) =>
    /\ inv.currentStatus = getPRStatus(inv.bodyBefore)
    /\ (inv.reviewState = "approved" => inv.newStatus = "approved")
    /\ (inv.reviewState = "changes_requested" => inv.newStatus = "changes-requested")
    /\ (inv.outcome # "failed" => getPRStatus(pr.body) = inv.newStatus)

\* approved, then a changes_requested review: the two alternate
C2_Witness ==
  /\ Computed
  /\ inv.currentStatus = "approved"
  /\ inv.reviewState = "changes_requested"
  /\ inv.newStatus = "changes-requested"
  /\ getPRStatus(pr.body) = "changes-requested"

\* a verdict arrives while the persisted status is merged or closed
C2_FromTerminal ==
  /\ Computed
  /\ inv.currentStatus \in {"merged", "closed"}
  /\ IsVerdict(inv.reviewState)
  /\ inv.outcome # "failed"

RECURSIVE CountKind(_, _)
CountKind(body, kind) ==
  IF body = <<>> THEN 0
  ELSE (IF Head(body).k = kind THEN 1 ELSE 0) + CountKind(Tail(body), kind)

\* C3: at most one thread per PR: at most one head message has been posted
\* for the PR and its body holds at most one thread-timestamp marker.
C3_OneThreadPerPR ==
  /\ Len(HeadMessages(channel)) <= 1
  /\ CountKind(pr.body, "ts") <= 1

\* C4: handlePROpened sends the head message rendered with status
\* review-pending first; it writes the PR body only after that send has
\* succeeded, and the body written is the original body followed by the
\* markers of the timestamp that send returned and of status review-pending.
C4_OpenedSendsThenWrites ==
  inv.handler = "handlePROpened" =>
    LET orig == IF inv.bodyBefore = <<>> THEN <<Blank>> ELSE inv.bodyBefore
        n == Len(pr.body)
        head == channel[Len(channel)]
    IN /\ inv.calls[1].op = "chat.postMessage" /\ inv.calls[1].thread_ts = Null
       /\ Attempted("pulls.update") =>
            /\ inv.calls[1].ok
            /\ Len(inv.calls) = 2
            /\ inv.calls[2].op = "pulls.update"
       /\ HasCall("chat.postMessage", TRUE) =>
            /\ head.thread_ts = Null
            /\ head.ts = inv.calls[1].ts
            /\ head.msg.statusText = (IF pr.draft THEN "draft" ELSE "review pending")
       /\ HasCall("pulls.update", TRUE) =>
            /\ n = Len(orig) + 3
            /\ SubSeq(pr.body, 1, Len(orig)) = orig
            /\ pr.body[n - 2].k = "blank"
            /\ pr.body[n - 1].k = "ts" /\ pr.body[n - 1].v = head.ts
            /\ pr.body[n].k = "status" /\ pr.body[n].v = "review-pending"
       /\ ~HasCall("pulls.update", TRUE) => pr.body = inv.bodyBefore

C4_Witness ==
  /\ inv.handler = "handlePROpened"
  /\ inv.action = "opened"
  /\ inv.outcome = "completed"
  /\ inv.bodyBefore # <<>>
  /\ Len(pr.body) = Len(inv.bodyBefore) + 3
  /\ pr.body[Len(pr.body) - 1].v = channel[Len(channel)].ts

\* C5: a run of handleComment that finds no thread pointer in the PR body,
\* or whose read of the PR fails, is not marked failed and changes neither
\* the channel (no post, no edit) nor the PR body.
C5_NoPointerNoEffect ==
  [][(/\ inv'.handler = "handleComment"
      /\ deliveries' # deliveries
      /\ (FirstOfKind(pr.body, "ts") = Null \/ inv'.readFailed))
     => (/\ inv'.outcome # "failed"
         /\ inv'.calls = <<>>
         /\ channel' = channel
         /\ pr' = pr)]_vars

C5_Witness ==
  /\ inv.handler = "handleComment"
  /\ inv.author # BotLogin
  /\ IsVerdict(inv.reviewState)
  /\ FirstOfKind(pr.body, "ts") = Null
  /\ inv.outcome = "skipped"

\* the read of the PR failed although the body holds a pointer
C5_ReadFailed ==
  /\ inv.handler = "handleComment"
  /\ inv.readFailed
  /\ FirstOfKind(pr.body, "ts") # Null
  /\ inv.outcome = "skipped"

\* C6: handleComment edits the head message (chat update addressed to the
\* pointer's timestamp) and writes the status to the PR body only if the next
\* status differs from the current one, and does both in every run that
\* differs and is not ended by a failing call; it never posts a top-level
\* message.
C6_EditIffChangedState ==
  Computed =>
    /\ (Attempted("chat.update") \/ Attempted("pulls.update") \/ pr.body # inv.bodyBefore)
         => inv.newStatus # inv.currentStatus
    /\ \A i \in 1..Len(inv.calls) :
         /\ inv.calls[i].op = "chat.update" => inv.calls[i].ts = inv.threadTs
         /\ inv.calls[i].op = "chat.postMessage" => inv.calls[i].thread_ts # Null
    /\ (inv.newStatus # inv.currentStatus /\ inv.outcome # "failed") =>
         /\ HasCall("chat.update", TRUE)
         /\ HasCall("pulls.update", TRUE)
         /\ getPRStatus(pr.body) = inv.newStatus
         /\ HeadOf(inv.threadTs).msg.statusText =
              (IF pr.draft THEN "draft" ELSE getStatusDisplay(inv.newStatus).text)

TargetsKnown == inv.outcome \in {"completed", "skipped"} \/ Attempted("chat.postMessage")

\* C7: the handles the thread reply of handleComment is for are the PR author
\* iff the verdict is approved or changes_requested, united with the handles
\* extractMentions returns for the comment body, each once; when there is
\* none, no thread reply is sent.
C7_ReplyTargets ==
  (Computed /\ TargetsKnown) =>
    /\ Range(inv.targetUsers) =
         (IF inv.reviewState \in {"approved", "changes_requested"} THEN {pr.author} ELSE {})
         \cup Range(extractMentions(inv.body))
    /\ NoDup(inv.targetUsers)
    /\ inv.targetUsers = <<>> => (inv.reply = NoMsg /\ ~Attempted("chat.postMessage"))
    /\ inv.reply # NoMsg => inv.reply.mentions = mapGitHubUsersToSlack(inv.targetUsers, config)

\* an approving review by b that mentions the author a twice and c
C7_Witness ==
  /\ Computed
  /\ inv.reviewState = "approved"
  /\ inv.targetUsers = <<a, c>>
  /\ inv.reply # NoMsg
  /\ Len(inv.reply.mentions) = 2

\* a plain comment without a mention: nobody to notify, nothing sent
C7_NoTargets ==
  /\ Computed
  /\ inv.reviewState = Null
  /\ inv.targetUsers = <<>>
  /\ inv.outcome = "skipped"

\* C8: an unresolvable handle never fails and never suppresses a
\* notification: the head message of PR-opened shows an unresolved author as
\* a plain handle, and a comment run with a pointer and a non-empty set of
\* target handles still sends its thread reply.
C8_UnresolvedStillNotified ==
  /\ (inv.handler = "handlePROpened" /\ inv.authorSlackId = Null) =>
       /\ inv.outcome = "failed" => HasCall("chat.postMessage", FALSE) \/ HasCall("pulls.update", FALSE)
       /\ HasCall("chat.postMessage", TRUE) => channel[Len(channel)].msg.authorPlain = pr.author
  /\ (Computed /\ inv.outcome # "failed" /\ inv.targetUsers # <<>>) => inv.reply # NoMsg

\* C9: the reviewer set handlePROpened puts in the head message never
\* contains the chat identity of the PR author.
C9_AuthorNotAmongReviewers ==
  (inv.handler = "handlePROpened" /\ inv.authorSlackId # Null) =>
    inv.authorSlackId \notin Range(inv.reviewerSlackIds)

\* C10: the reviewer list handlePROpened passes to the head message holds
\* each chat identity at most once.
C10_ReviewersUnique ==
  inv.handler = "handlePROpened" => NoDup(inv.reviewerSlackIds)

\* a source contributes when one of the members it offers resolves to a
\* chat identity
Contributes(handles) ==
  \E i \in 1..Len(handles) :
    handles[i] # pr.author /\ mapGitHubUserToSlack(handles[i], config) # Null

\* the label that names exactly the contributing sources, in the order
\* reviewers, codeowners, default; none when there is none
ContributingSources ==
  LET named ==
        (IF Contributes(pr.requested_reviewers) THEN <<"reviewers">> ELSE <<>>)
        \o (IF Contributes(getCodeOwners(repoFiles.changedFiles, repoFiles.codeowners))
            THEN <<"codeowners">> ELSE <<>>)
        \o (IF getDefaultReviewersSlackIds(config.default_reviewers) # <<>>
            THEN <<"default">> ELSE <<>>)
  IN IF named = <<>> THEN <<"none">> ELSE named

\* C11: the provenance label of handlePROpened names exactly the sources
\* that contributed a member to the reviewer set, in the order reviewers,
\* codeowners, default, and it is none iff the reviewer set is empty.
C11_LabelNamesContributors ==
  inv.handler = "handlePROpened" =>
    /\ inv.reviewerSource = ContributingSources
    /\ (inv.reviewerSource = <<"none">>) <=> (inv.reviewerSlackIds = <<>>)

\* C12: when no source gives a reviewer, handlePROpened still sends the head
\* message, with an empty reviewer field, and still writes the pointer; the
\* run ends failed only when one of its two calls fails.
C12_EmptyReviewersStillNotified ==
  (inv.handler = "handlePROpened" /\ inv.reviewerSlackIds = <<>>) =>
    /\ Attempted("chat.postMessage")
    /\ inv.outcome \in {"completed", "failed"}
    /\ inv.outcome = "failed" <=>
         (HasCall("chat.postMessage", FALSE) \/ HasCall("pulls.update", FALSE))
    /\ HasCall("chat.postMessage", TRUE) =>
         /\ Attempted("pulls.update")
         /\ channel[Len(channel)].msg.kind = "head"
         /\ channel[Len(channel)].msg.reviewerMentions = <<>>
    /\ inv.outcome = "completed" =>
         /\ pr.body[Len(pr.body) - 1] = TsMarker(inv.threadTs)
         /\ pr.body[Len(pr.body)] = StatusMarker(PR_STATUS.REVIEW_PENDING)

\* no reviewer, no code owner of a changed file, no default reviewer
C12_Witness ==
  /\ inv.handler = "handlePROpened"
  /\ inv.reviewerSlackIds = <<>>
  /\ inv.reviewerSource = <<"none">>
  /\ inv.outcome = "completed"
  /\ Len(HeadMessages(channel)) = 1
  /\ FirstOfKind(pr.body, "ts") = inv.threadTs

\* the pure function of that name has been applied to the inputs in fn.args
Applied(name) == fn.name = name /\ fn.done

\* the chat identity the directory holds for an email, none for no email,
\* an unknown email or a request that throws
Registered(email) ==
  IF email \in DOMAIN SlackDirectory /\ SlackDirectory[email] \notin {Null, Throws}
  THEN SlackDirectory[email] ELSE Null

\* the public email the code host gives for a handle, none when it has
\* none or the request throws
PublicEmail(h) ==
  IF h \in DOMAIN GitHubProfiles /\ GitHubProfiles[h] \notin {Null, Throws}
  THEN GitHubProfiles[h] ELSE Null

MappedEmail(h, cfg) ==
  IF h \in DOMAIN cfg.email_mappings THEN cfg.email_mappings[h] ELSE Null

\* C13: mapGitHubUserToSlack returns the identity found through the
\* explicit mapping when that lookup succeeds, and then asks the code host
\* nothing; when it yields nothing and auto_match_by_email is on, it asks the
\* code host for the public email once and looks the identity up by it; with
\* auto_match_by_email off the code host is never asked; in every other case
\* the result is absent.
C13_LayeredResolution ==
  Applied("mapGitHubUserToSlack") =>
    LET h == fn.args[1]
        cfg == fn.args[2]
        calls == fn.out.calls
        viaMapping == Registered(MappedEmail(h, cfg))
        viaProfile == Registered(PublicEmail(h))
        asked == {i \in 1..Len(calls) : calls[i].api = "users.getByUsername"}
    IN /\ viaMapping # Null => (fn.out.id = viaMapping /\ asked = {})
       /\ ~cfg.auto_match_by_email => asked = {}
       /\ (viaMapping = Null /\ cfg.auto_match_by_email) =>
            /\ Cardinality(asked) = 1
            /\ fn.out.id = viaProfile
            /\ \A i \in 1..Len(calls) :
                 (calls[i].api = "users.lookupByEmail" /\ \E j \in asked : j < i)
                   => calls[i].arg = PublicEmail(h)
       /\ (viaMapping = Null /\ ~cfg.auto_match_by_email) => fn.out.id = Null
       /\ (viaMapping = Null /\ viaProfile = Null) => fn.out.id = Null

\* the lookup by the mapped email throws, the profile email resolves
C13_Witness ==
  /\ Applied("mapGitHubUserToSlack")
  /\ fn.args[1] = a
  /\ fn.args[2].email_mappings = ThrowingMappings
  /\ fn.out.id = "U1"
  /\ Len(fn.out.calls) = 3

\* one of the requests made for the handle throws
LookupThrows(h, cfg) ==
  \E i \in 1..Len(mapGitHubUserToSlackCalls(h, cfg)) :
    LET call == mapGitHubUserToSlackCalls(h, cfg)[i]
    IN \/ call.api = "users.lookupByEmail" /\ call.arg \in DOMAIN SlackDirectory
                                           /\ SlackDirectory[call.arg] = Throws
       \/ call.api = "users.getByUsername" /\ call.arg \in DOMAIN GitHubProfiles
                                           /\ GitHubProfiles[call.arg] = Throws

\* C14: mapGitHubUsersToSlack returns the identities of the handles that
\* resolve, in the order of the input, with nothing in the place of a handle
\* that does not; a handle whose lookup throws is such a handle and the
\* handles after it are still resolved.
C14_BatchKeepsOrderDropsMisses ==
  Applied("mapGitHubUsersToSlack") =>
    LET hs == fn.args[1]
        cfg == fn.args[2]
        each == [i \in 1..Len(hs) |-> mapGitHubUserToSlack(hs[i], cfg)]
        hits == {i \in 1..Len(hs) : each[i] # Null}
    IN /\ Len(fn.out) = Cardinality(hits)
       /\ \A k \in 1..Len(fn.out) :
            /\ fn.out[k] \notin {Null, Throws}
            /\ \E i \in hits :
                 /\ Cardinality({j \in hits : j < i}) = k - 1
                 /\ fn.out[k] = each[i]
       /\ \A i \in 1..Len(hs) : LookupThrows(hs[i], cfg) => each[i] \notin {Throws}

\* the profile request for d throws, c after it is resolved
C14_Witness ==
  /\ Applied("mapGitHubUsersToSlack")
  /\ fn.args[1] = <<d, c>>
  /\ LookupThrows(d, fn.args[2])
  /\ fn.out = <<"U3">>

\* the owners a CODEOWNERS line names: its tokens after the pattern that
\* start with '@', without the '@'
OwnersNamed(line) ==
  {Tail(line[k]) : k \in {j \in 2..Len(line) : line[j] # <<>> /\ line[j][1] = "@"}}

\* the line is a rule: no comment, a pattern and at least one owner
IsRule(line) ==
  /\ Len(line) >= 2
  /\ line[1][1] # "#"
  /\ OwnersNamed(line) # {}

\* the owners of the file: those of the last line of the content that is a
\* rule and matches it
OwnersOfFile(file, content) ==
  LET matching == {i \in 1..Len(content) :
                     IsRule(content[i]) /\ matchPattern(file, content[i][1])}
  IN IF matching = {} THEN {}
     ELSE OwnersNamed(content[CHOOSE i \in matching : \A j \in matching : j <= i])

MatchReference(file, pattern) ==
  LET n == Len(pattern)
      prefixes == {SubSeq(file, 1, k) : k \in 0..Len(file)}
      suffixes == {SubSeq(file, k + 1, Len(file)) : k \in 0..Len(file)}
      parts == {SubSeq(file, i, j) : i \in 1..Len(file), j \in 1..Len(file)}
  IN IF pattern = <<"*">> THEN TRUE
     ELSE IF n >= 2 /\ pattern[1] = "*" /\ pattern[2] = "."
     THEN SubSeq(pattern, 2, n) \in suffixes
     ELSE IF pattern[n] = "/"
     THEN pattern \in prefixes \/ SubSeq(pattern, 1, n - 1) \in prefixes
     ELSE IF pattern[1] = "/"
     THEN file = SubSeq(pattern, 2, n) \/ Append(SubSeq(pattern, 2, n), "/") \in prefixes
     ELSE pattern \in parts

\* C16: for every file path and pattern matchPattern gives what the five
\* rules give in their precedence: '*'; '*.' extension; trailing '/';
\* leading '/'; substring.
C16_MatchPatternRules ==
  Applied("matchPattern") => (fn.out = MatchReference(fn.args[1], fn.args[2]))

\* '*./' is read as an extension pattern, not as a directory pattern
C16_Witness ==
  /\ Applied("matchPattern")
  /\ fn.args[2] = <<"*", ".", "/">>
  /\ fn.args[1] = <<"s", ".", "/">>
  /\ fn.out = TRUE

\* the handle extractMentions reads at position k of the text: text[k] is
\* '@', the handle runs to m, starts and ends with an alphanumeric and cannot
\* be extended
IsMention(text, k, m) ==
  /\ text[k] = "@"
  /\ k < m
  /\ m <= Len(text)
  /\ text[k + 1] \in AlphaNum
  /\ text[m] \in AlphaNum
  /\ \A i \in (k + 1)..m : text[i] \in AlphaNum \cup {"-"}
  /\ \A j \in (m + 1)..Len(text) :
       (\A i \in (m + 1)..j : text[i] \in AlphaNum \cup {"-"}) => text[j] \notin AlphaNum

MentionsIn(text) ==
  {SubSeq(text, k + 1, m) : <<k, m>> \in
     {km \in (1..Len(text)) \X (1..Len(text)) : km[1] < km[2] /\ IsMention(text, km[1], km[2])}}

FirstMentionOf(text, h) ==
  CHOOSE k \in 1..Len(text) :
    /\ \E m \in (k + 1)..Len(text) : IsMention(text, k, m) /\ SubSeq(text, k + 1, m) = h
    /\ \A k2 \in 1..(k - 1) :
         ~\E m \in (k2 + 1)..Len(text) : IsMention(text, k2, m) /\ SubSeq(text, k2 + 1, m) = h

\* C17: extractMentions returns the handles mentioned in the text, each
\* once, in the order of their first mention; a handle is made of
\* alphanumerics and hyphens and neither starts nor ends with a hyphen; an
\* empty text gives none.
C17_MentionsUniqueOrdered ==
  Applied("extractMentions") =>
    LET text == fn.args[1]
    IN /\ NoDup(fn.out)
       /\ Range(fn.out) = MentionsIn(text)
       /\ \A i \in 1..Len(fn.out) :
            /\ fn.out[i] # <<>>
            /\ Range(fn.out[i]) \subseteq AlphaNum \cup {"-"}
            /\ fn.out[i][1] # "-"
            /\ fn.out[i][Len(fn.out[i])] # "-"
       /\ \A i, j \in 1..Len(fn.out) :
            i < j => FirstMentionOf(text, fn.out[i]) < FirstMentionOf(text, fn.out[j])
       /\ text = <<>> => fn.out = <<>>

\* '@b@a' mentions b before a
C17_Witness ==
  /\ Applied("extractMentions")
  /\ fn.args[1] = <<"@", "b", "@", "a">>
  /\ fn.out = <<b, a>>

\* a repeated mention is listed once, a trailing hyphen is left out
C17_RepeatedMention ==
  /\ Applied("extractMentions")
  /\ fn.args[1] \in {<<"@", "a", "@", "a">>, <<"@", "a", "-", "-">>}
  /\ fn.out = <<a>>

\* C18: after the pointer (ts, status) has been appended to a PR body,
\* reading the pointer from that body gives the ts and the status written,
\* whatever the body held before.
C18_PointerRoundTrip ==
  Applied("pointer") =>
    /\ fn.out.ts = fn.args[2]
    /\ fn.out.status = fn.args[3]

\* the thread timestamp alone: the body held a timestamp marker already
C18_StaleTimestampRead ==
  /\ Applied("pointer")
  /\ FirstOfKind(fn.args[1], "status") = Null
  /\ fn.out.ts # fn.args[2]

\* C19: a run whose event type is unsupported, or whose payload lacks the
\* object the parser expects, ends marked failed and makes no call to the
\* chat or to the code host.
C19_InputErrorsFail ==
  inv.handler \in {"unsupported", "parsePRData", "parseCommentData"} =>
    /\ inv.outcome = "failed"
    /\ inv.calls = <<>>

\* the payload half alone: the parser throws, the run is failed, nothing is
\* posted or written
C19_MalformedPayloadFails ==
  [][inv'.handler \in {"parsePRData", "parseCommentData"} =>
       /\ inv'.outcome = "failed"
       /\ inv'.calls = <<>>
       /\ channel' = channel
       /\ pr' = pr]_vars

FailedCalls == {i \in 1..Len(inv.calls) : ~inv.calls[i].ok}

\* C20: a send or edit of the head message or a write of the pointer that
\* fails marks the run failed; the call is made once and is the last call of
\* the run: after a failed send on PR-opened the PR body is not written,
\* after a failed write or edit on a comment event no thread reply is sent.
C20_CriticalFailureState ==
  inv.handler \in {"handlePROpened", "handleComment"} =>
    /\ FailedCalls # {} =>
         /\ inv.outcome = "failed"
         /\ FailedCalls = {Len(inv.calls)}
    /\ \A i, j \in 1..Len(inv.calls) : inv.calls[i].op = inv.calls[j].op => i = j
    /\ (inv.handler = "handlePROpened" /\ HasCall("chat.postMessage", FALSE)) =>
         /\ ~Attempted("pulls.update")
         /\ pr.body = inv.bodyBefore
    /\ (inv.handler = "handleComment"
        /\ (HasCall("pulls.update", FALSE) \/ HasCall("chat.update", FALSE))) =>
         /\ ~Attempted("chat.postMessage")
         /\ inv.reply = NoMsg

C20_CriticalFailureStopsRun ==
  /\ []C20_CriticalFailureState
  /\ [][(/\ deliveries' # deliveries
          /\ \E i \in 1..Len(inv'.calls) : ~inv'.calls[i].ok)
         => (/\ (inv'.handler = "handlePROpened" /\ inv'.calls[1].ok = FALSE)
                  => (channel' = channel /\ pr'.body = pr.body)
             /\ inv'.handler = "handleComment"
                  => (/\ Len(channel') = Len(channel)
                      /\ inv'.calls[1].ok = FALSE => pr'.body = pr.body))]_vars

\* an approving review that mentions a: the status is written, the edit of
\* the head message fails, and no reply follows
C20_Witness ==
  /\ inv.handler = "handleComment"
  /\ inv.reviewState = "approved"
  /\ inv.body # <<>>
  /\ HasCall("pulls.update", TRUE)
  /\ HasCall("chat.update", FALSE)
  /\ inv.outcome = "failed"
  /\ inv.reply = NoMsg

\* the send of the head message fails on PR-opened
C20_SendFailed ==
  /\ inv.handler = "handlePROpened"
  /\ HasCall("chat.postMessage", FALSE)
  /\ inv.outcome = "failed"
  /\ pr.body = inv.bodyBefore

\* C21: the handle-to-email entries written under email_mappings in the YAML
\* configuration file are the email_mappings table loadConfig returns, the
\* table mapGitHubUserToSlack consults first.
C21_YamlMappingsReturned ==
  (/\ Applied("loadConfig")
   /\ fn.args[1].state = "parsed"
   /\ "email_mappings" \in fn.args[1].keys) =>
    /\ fn.out.email_mappings = fn.args[1].email_mappings
    /\ \A h \in Handles :
         mapGitHubUserToSlack(h, fn.out)
           = mapGitHubUserToSlack(h, [fn.out EXCEPT !.email_mappings = fn.args[1].email_mappings])

\* the other keys of the YAML document are the ones loadConfig returns
C21_OtherKeysReturned ==
  (/\ Applied("loadConfig")
   /\ fn.args[1].state = "parsed"
   /\ ConfigKeys \subseteq fn.args[1].keys) =>
    /\ fn.out.default_reviewers = fn.args[1].default_reviewers
    /\ fn.out.auto_match_by_email = fn.args[1].auto_match_by_email

\* C22: a run of handleComment that persists a new status has edited the
\* head message before: the successful chat.update comes before pulls.update
\* in the run's calls, so the persisted status is never ahead of the status
\* the head message shows.
C22_HeadEditedBeforePersist ==
  (inv.handler = "handleComment" /\ Attempted("pulls.update")) =>
    \E i, j \in 1..Len(inv.calls) :
      /\ inv.calls[i].op = "chat.update" /\ inv.calls[i].ok
      /\ inv.calls[j].op = "pulls.update"
      /\ i < j

\* a failed run has persisted in-review while the head message of the
\* thread still shows review pending
C22_PersistedAheadOfHead ==
  /\ inv.handler = "handleComment"
  /\ inv.outcome = "failed"
  /\ ~pr.draft
  /\ getPRStatus(pr.body) = PR_STATUS.IN_REVIEW
  /\ HasMessage(channel, inv.threadTs)
  /\ HeadOf(inv.threadTs).msg.statusText = getStatusDisplay(PR_STATUS.REVIEW_PENDING).text

\* the status two events persist when handled one after the other
RaceSerial(status, first, second) ==
  NextStatus(NextStatus(status, first.reviewState), second.reviewState)

RaceEvent(r) ==
  [eventName |-> race.runs[r].eventName, reviewState |-> race.runs[r].reviewState]

RaceOver == race.runs # <<>> /\ \A r \in Runs : race.runs[r].pc = "done"

\* C23: when two runs of handleComment on one PR interleave, the status
\* persisted after both have ended is the status that handling the two
\* events one after the other, in one of the two orders, persists.
C23_ConcurrentAsSerial ==
  RaceOver =>
    getPRStatus(pr.body) \in {RaceSerial(race.start, RaceEvent(1), RaceEvent(2)),
                              RaceSerial(race.start, RaceEvent(2), RaceEvent(1))}

\* a comment and an approval raced on a review-pending PR and in-review was
\* persisted last
C23_ApprovalLost ==
  /\ RaceOver
  /\ race.start = PR_STATUS.REVIEW_PENDING
  /\ \E r \in Runs : race.runs[r].reviewState = "approved"
  /\ getPRStatus(pr.body) = PR_STATUS.IN_REVIEW

\* the chat identity a handle resolves to under the configuration: through
\* the mapped email, else through the public email when auto matching is on
ResolvedIdentity(h, cfg) ==
  IF Registered(MappedEmail(h, cfg)) # Null THEN Registered(MappedEmail(h, cfg))
  ELSE IF cfg.auto_match_by_email THEN Registered(PublicEmail(h))
  ELSE Null

\* the identities of the PR's requested reviewers other than the author
RequestedIdentities ==
  {ResolvedIdentity(pr.requested_reviewers[i], config) :
     i \in {j \in 1..Len(pr.requested_reviewers) : pr.requested_reviewers[j] # pr.author}}
  \ {Null}

OtherLines(body) == SelectSeq(body, LAMBDA l : l.k # "status")

\* C25: a run of handleComment leaves the thread-timestamp marker of the PR
\* body as it was: what it writes differs from the body before in the status
\* marker only, so a later event reads the timestamp the earlier one read.
C25_CommentKeepsTimestamp ==
  [][(deliveries' # deliveries /\ inv'.handler = "handleComment") =>
       /\ getSlackThreadTs(pr'.body, FALSE) = getSlackThreadTs(pr.body, FALSE)
       /\ OtherLines(pr'.body) = OtherLines(pr.body)
       /\ inv'.threadTs # Null => inv'.threadTs = getSlackThreadTs(pr'.body, FALSE)]_vars

\* a comment event has overwritten the status marker of a body that holds a
\* thread timestamp
C25_Witness ==
  /\ Computed
  /\ HasCall("pulls.update", TRUE)
  /\ pr.body # inv.bodyBefore
  /\ inv.threadTs # Null
  /\ getSlackThreadTs(pr.body, FALSE) = inv.threadTs

\* the status markers of a body that say merged or closed
ReservedMarkers(body) ==
  SelectSeq(body, LAMBDA l : l.k = "status" /\ l.v \in {PR_STATUS.MERGED, PR_STATUS.CLOSED})

StatusAfter(status, reviewState) ==
  CASE reviewState = "approved" -> "approved"
    [] reviewState = "changes_requested" -> "changes-requested"
    [] status = "review-pending" -> "in-review"
    [] OTHER -> status

\* the head message rendered for the PR as a draft and as no draft differ in
\* the status emoji and the status label only
DraftIsOverlay ==
  \A status \in StatusValues :
    LET asDraft == createPRNotificationMessage(
                     [parsePRData(pr) EXCEPT !.isDraft = TRUE], <<"U2">>, Null, status)
        asReady == createPRNotificationMessage(
                     [parsePRData(pr) EXCEPT !.isDraft = FALSE], <<"U2">>, Null, status)
    IN /\ [asDraft EXCEPT !.statusEmoji = asReady.statusEmoji,
                          !.statusText = asReady.statusText] = asReady
       /\ asDraft.statusText = "draft"
       /\ asReady.statusText # "draft"

\* C27: the draft flag has no part in the status state machine: the status
\* a run reads, computes and persists is given by the body before the run,
\* the event and the call that failed, whatever the draft flag is; the flag
\* only replaces the emoji and the label of the head message.
C27_DraftOnlyAnOverlay ==
  /\ []DraftIsOverlay
  /\ [][deliveries' # deliveries =>
          /\ (inv'.handler = "handleComment" /\ inv'.currentStatus # Null) =>
               /\ inv'.currentStatus = getPRStatus(pr.body)
               /\ inv'.newStatus = StatusAfter(getPRStatus(pr.body), inv'.reviewState)
               /\ getPRStatus(pr'.body) =
                    (IF \E i \in 1..Len(inv'.calls) :
                          inv'.calls[i].op = "pulls.update" /\ inv'.calls[i].ok
                     THEN inv'.newStatus ELSE getPRStatus(pr.body))
          /\ inv'.handler = "handlePROpened" =>
               /\ inv'.newStatus = "review-pending"
               /\ getPRStatus(pr'.body) \in {getPRStatus(pr.body), "review-pending"}
               /\ (inv'.outcome = "completed" /\ FirstOfKind(pr.body, "status") = Null)
                    => getPRStatus(pr'.body) = "review-pending"]_vars

\* a comment on a draft PR moved the status to in-review while the head
\* message shows the draft label
C27_Witness ==
  /\ Computed
  /\ pr.draft
  /\ HasCall("chat.update", TRUE)
  /\ inv.currentStatus = "review-pending"
  /\ getPRStatus(pr.body) = "in-review"
  /\ HeadOf(inv.threadTs).msg.statusText = "draft"

\* C28: getCodeOwners gives the same set of owners for every order of the
\* changed files under one rule list, and what a file contributes is what
\* getCodeOwners gives for that file alone: the owners of the rule selected
\* by the file and the rule order.
C28_OwnersIndependentOfFileOrder ==
  Applied("getCodeOwners") =>
    LET files == fn.args[1]
        content == fn.args[2]
    IN /\ \A p \in Permutations(1..Len(files)) :
            Range(getCodeOwners([i \in 1..Len(files) |-> files[p[i]]], content))
              = Range(fn.out)
       /\ \A i \in 1..Len(files) :
            /\ Range(getCodeOwners(<<files[i]>>, content)) = OwnersOfFile(files[i], content)
            /\ OwnersOfFile(files[i], content) \subseteq Range(fn.out)

\* two files owned through different rules, given in the order q, s/x.j
C28_Witness ==
  /\ Applied("getCodeOwners")
  /\ fn.args[1] = <<FileQ, FileSX>>
  /\ OwnersOfFile(FileQ, fn.args[2]) = {a}
  /\ OwnersOfFile(FileSX, fn.args[2]) = {b, c}
  /\ fn.out = <<a, b, c>>

\* the content of the first candidate path, in order, that returned content
FirstContent(responses) ==
  LET found == {k \in 1..Len(responses) : responses[k].res = "file"}
  IN IF found = {} THEN <<>>
     ELSE responses[CHOOSE k \in found : \A j \in found : k <= j].content

\* C29 as stated: getCodeOwners never throws, and returns no owner when
\* there is no changed file, no candidate path holds a CODEOWNERS file, no
\* changed file matches a rule, or any request to the code host fails.
C29_EmptyOnAnyFailure ==
  Applied("getCodeOwnersOfPR") =>
    LET listing == fn.args[1]
        responses == fn.args[2]
    IN /\ ~fn.out.threw
       /\ (\/ ~listing.ok
           \/ listing.files = <<>>
           \/ \A k \in 1..3 : responses[k].res # "file"
           \/ \A i \in 1..Len(listing.files) :
                OwnersOfFile(listing.files[i], FirstContent(responses)) = {}
           \/ \E k \in 1..3 : responses[k].res = "throws")
            => fn.out.owners = <<>>

\* C29, amended: getCodeOwners never throws; it returns no owner when the
\* listing of the changed files fails or is empty, when no candidate path
\* returns content (its request failing or not), or when no changed file
\* matches a rule; a failing request for one candidate path is a miss for
\* that path only, and the owners are those under the first path with content.
C29_EmptyUnlessFoundAndMatched ==
  Applied("getCodeOwnersOfPR") =>
    LET listing == fn.args[1]
        responses == fn.args[2]
    IN /\ ~fn.out.threw
       /\ (\/ ~listing.ok
           \/ listing.files = <<>>
           \/ \A k \in 1..3 : responses[k].res # "file"
           \/ \A i \in 1..Len(listing.files) :
                OwnersOfFile(listing.files[i], FirstContent(responses)) = {})
            => fn.out.owners = <<>>
       /\ listing.ok =>
            Range(fn.out.owners) =
              UNION {OwnersOfFile(listing.files[i], FirstContent(responses)) :
                       i \in 1..Len(listing.files)}

\* the request for .github/CODEOWNERS throws, CODEOWNERS holds the file, and
\* owners are returned
C29_Witness ==
  /\ Applied("getCodeOwnersOfPR")
  /\ fn.args[1].files = <<FileSX>>
  /\ fn.args[2][1].res = "throws"
  /\ fn.args[2][2] = [res |-> "file", content |-> OwnersFile]
  /\ fn.out.owners # <<>>

\* every request fails and no owner is returned
C29_AllRequestsFail ==
  /\ Applied("getCodeOwnersOfPR")
  /\ ~fn.args[1].ok
  /\ \A k \in 1..3 : fn.args[2][k].res = "throws"
  /\ fn.out = [threw |-> FALSE, owners |-> <<>>]

NonBlankAt(body) == {i \in 1..Len(body) : body[i].k # "blank"}

\* the positions of the first three of them
FirstThreeAt(body) ==
  {i \in NonBlankAt(body) : Cardinality({j \in NonBlankAt(body) : j < i}) < 3}

RECURSIVE LengthOver(_, _)
LengthOver(body, at) ==
  IF at = {} THEN 0
  ELSE LET i == CHOOSE k \in at : TRUE
       IN body[i].len + LengthOver(body, at \ {i})

\* C31: summarizePRBody returns the placeholder exactly when the body is
\* absent or has no non-blank line; otherwise it returns the first three
\* non-blank lines joined by newlines, cut to 197 characters and '...' when
\* that text is longer than 200 characters; the result never exceeds 200
\* characters.
C31_SummaryWithinLimit ==
  Applied("summarizePRBody") =>
    LET body == fn.args[1]
        at == FirstThreeAt(body)
        joined == LengthOver(body, at) + (IF at = {} THEN 0 ELSE Cardinality(at) - 1)
    IN /\ fn.out.placeholder <=> NonBlankAt(body) = {}
       /\ fn.out.placeholder => fn.out.len = 7
       /\ ~fn.out.placeholder =>
            /\ Len(fn.out.lines) = Cardinality(at)
            /\ \A i \in at : fn.out.lines[Cardinality({j \in at : j <= i})] = body[i]
            /\ fn.out.cut <=> joined > 200
            /\ fn.out.len = IF joined > 200 THEN 200 ELSE joined
       /\ fn.out.len <= 200

\* three lines of 66, 66 and 67 characters, 201 joined, are cut to 200
C31_Witness ==
  /\ Applied("summarizePRBody")
  /\ NonBlank(fn.args[1]) = <<TextLine("t", 66), TextLine("t", 66), TextLine("t", 67)>>
  /\ fn.out.cut
  /\ fn.out.len = 200

\* three lines of 66 characters, 200 joined, are returned whole
C31_AtLimit ==
  /\ Applied("summarizePRBody")
  /\ Len(fn.args[1]) = 4
  /\ fn.args[1][2].k = "blank"
  /\ fn.out.lines = <<TextLine("t", 66), TextLine("t", 66), TextLine("t", 66)>>
  /\ ~fn.out.cut
  /\ fn.out.len = 200

\* the steps of a run in the order of the program text
StepOrder ==
  <<"run", "parsePRData", "mapAuthor", "reviewers", "listFiles", "paths", "files",
    "codeOwners", "mapReviewers", "defaultReviewers", "sendSlackMessage", "pullsUpdate",
    "parseCommentData", "getSlackThreadTs", "getPRStatus", "updatePRStatus", "pullsGet",
    "requestedReviewers", "mapRequested", "mapAuthorForUpdate", "updateSlackMessage",
    "targetUsers", "getPRAuthor", "extractMentions", "mapTargets", "targetSlackIds",
    "mapCommentAuthor", "sendThreadReply", "end">>

Position(pc) == CHOOSE k \in 1..Len(StepOrder) : StepOrder[k] = pc

\* C32: every run reaches the outcome completed, skipped or failed when
\* each of its calls returns or throws: no step leads back to an earlier one,
\* the loops over the reviewers, the default reviewers, the changed files, the
\* rules and the candidate paths advance by one element each time round and
\* stay within their lists.
C32_RunTerminates ==
  /\ <>(run.outcome \in {"completed", "skipped", "failed"})
  /\ [](run.i <= run.n /\ run.j <= (IF run.pc = "paths" THEN 3 ELSE run.m))
  /\ [][\/ Position(run'.pc) > Position(run.pc)
        \/ Position(run'.pc) = Position(run.pc) /\ run'.i = run.i + 1
        \/ Position(run'.pc) = Position(run.pc) /\ run'.i = run.i /\ run'.j = run.j + 1]_vars

\* a PR-opened run has ended after all its loops ran over full lists
C32_Witness ==
  /\ run.event = "pull_request"
  /\ run.outcome = "completed"
  /\ run.pc = "end"

\* the loop over the rules is at its last rule for the last changed file
C32_InnerLoopEnd ==
  /\ run.pc = "files"
  /\ run.n = MaxFiles
  /\ run.i = run.n - 1
  /\ run.m = MaxRules
  /\ run.j = run.m

\* the status text the one head message of the channel shows
RenderedStatus == HeadMessages(channel)[1].msg.statusText

\* the status text of the status the pointer holds
PersistedStatus == getStatusDisplay(getPRStatus(pr.body)).text

\* one PR-opened has posted its head message and the PR is not a draft
OneHeadNotDraft == Len(HeadMessages(channel)) = 1 /\ ~pr.draft

C33_HeadBehindQuotedMarker ==
  /\ inv.handler = "handlePROpened"
  /\ inv.outcome = "completed"
  /\ OneHeadNotDraft
  /\ RenderedStatus = "review pending"
  /\ getPRStatus(pr.body) = PR_STATUS.MERGED

\* C34: the persisted status only moves forward: a status other than
\* review-pending is never followed by review-pending, and approved or
\* changes-requested is never followed by in-review, whatever the run.
C34_StatusMovesForward ==
  [][/\ getPRStatus(pr.body) # "review-pending"
          => getPRStatus(pr'.body) # "review-pending"
     /\ getPRStatus(pr.body) \in {"approved", "changes-requested"}
          => getPRStatus(pr'.body) # "in-review"]_vars

\* a plain comment or a commented review was handled to its end on a PR whose
\* persisted status was a verdict, and the status is still that verdict
C34_Witness ==
  /\ inv.handler = "handleComment"
  /\ inv.outcome # "failed"
  /\ inv.reviewState \in {Null, "commented"}
  /\ inv.currentStatus \in {PR_STATUS.APPROVED, PR_STATUS.CHANGES_REQUESTED}
  /\ getPRStatus(pr.body) = inv.currentStatus

\* C35: a review whose verdict is commented is handled as a plain comment
\* is: it moves review-pending to in-review and leaves every other status as
\* it is, and the reply targets are the mentions of its body only, so the PR
\* author is among them only when mentioned.
C35_CommentedReviewIsComment ==
  (inv.handler = "handleComment" /\ inv.reviewState = "commented" /\ Computed) =>
    /\ inv.newStatus = (IF inv.currentStatus = "review-pending" THEN "in-review"
                        ELSE inv.currentStatus)
    /\ inv.targetUsers \in {<<>>, Uniq(extractMentions(inv.body))}
    /\ (inv.outcome = "completed" => inv.targetUsers = Uniq(extractMentions(inv.body)))
    /\ (pr.author \in Range(inv.targetUsers)
          => pr.author \in Range(extractMentions(inv.body)))

\* a commented review that mentions someone other than the PR author moved
\* a review-pending PR to in-review and went on to resolve its targets
C35_Witness ==
  /\ inv.handler = "handleComment"
  /\ inv.reviewState = "commented"
  /\ inv.currentStatus = "review-pending"
  /\ inv.newStatus = "in-review"
  /\ inv.outcome # "failed"
  /\ inv.targetUsers # <<>>
  /\ pr.author \notin Range(inv.targetUsers)

\* a commented review left an approved PR approved
C35_VerdictKept ==
  /\ inv.handler = "handleComment"
  /\ inv.reviewState = "commented"
  /\ inv.currentStatus = "approved"
  /\ inv.newStatus = "approved"
  /\ inv.outcome # "failed"

\* the description the author gave the PR: the lines of the body before the
\* blank line that precedes the pointer
RECURSIVE Description(_)
Description(body) ==
  IF body = <<>> \/ Head(body) = Blank THEN <<>>
  ELSE <<Head(body)>> \o Description(Tail(body))

C36_MarkersShown ==
  /\ inv.handler = "handleComment"
  /\ HasCall("chat.update", TRUE)
  /\ Description(pr.body) = <<>>
  /\ ~HeadOf(inv.threadTs).msg.summary.placeholder
  /\ HeadOf(inv.threadTs).msg.summary.lines
       = <<TsMarker(inv.threadTs), StatusMarker(inv.newStatus)>>

\* C37: a comment or review whose author is github-actions[bot] has no
\* effect: the run ends as skipped before the pointer is read, with no call
\* made, the PR body, the channel and the status left as they were.
C37_BotCommentIgnored ==
  [][(inv'.handler = "handleComment" /\ inv'.author = BotLogin) =>
        /\ inv'.outcome = "skipped"
        /\ inv'.threadTs = Null
        /\ inv'.currentStatus = Null
        /\ inv'.calls = <<>>
        /\ inv'.reply = NoMsg
        /\ pr' = pr
        /\ channel' = channel
        /\ nextTs' = nextTs]_vars

\* an approving review by the bot, with a mention, was delivered on a PR
\* whose pointer says review-pending, and the pointer still says so
C37_Witness ==
  /\ inv.handler = "handleComment"
  /\ inv.author = BotLogin
  /\ inv.reviewState = "approved"
  /\ extractMentions(inv.body) # <<>>
  /\ inv.outcome = "skipped"
  /\ getSlackThreadTs(pr.body, FALSE) # Null
  /\ getPRStatus(pr.body) = "review-pending"

\* the thread replies among the calls of the last run
ReplyCalls(calls) ==
  {i \in 1..Len(calls) : calls[i].op = "chat.postMessage" /\ calls[i].thread_ts # Null}

\* C38: a run of handleComment adds at most one message to the channel and
\* makes at most one thread reply call, and both carry the timestamp that
\* getSlackThreadTs reads from the body the PR had when the run started.
C38_ReplyInThreadRead ==
  [][inv'.handler = "handleComment" =>
       /\ Len(channel') <= Len(channel) + 1
       /\ \A i \in (Len(channel) + 1)..Len(channel') :
            /\ channel'[i].thread_ts # Null
            /\ channel'[i].thread_ts = getSlackThreadTs(pr.body, FALSE)
            /\ channel'[i].thread_ts = inv'.threadTs
       /\ Cardinality(ReplyCalls(inv'.calls)) <= 1
       /\ \A i \in ReplyCalls(inv'.calls) :
            inv'.calls[i].thread_ts = getSlackThreadTs(pr.body, FALSE)]_vars

\* a reply was sent for a PR whose body holds the pointers of two head
\* messages, in the thread of the one getSlackThreadTs reads
C38_Witness ==
  /\ inv.handler = "handleComment"
  /\ inv.outcome = "completed"
  /\ Len(HeadMessages(channel)) = 2
  /\ Cardinality({i \in 1..Len(pr.body) : pr.body[i].k = "ts"}) = 2
  /\ channel[Len(channel)].thread_ts = getSlackThreadTs(inv.bodyBefore, FALSE)
  /\ HasCall("chat.postMessage", TRUE)

\* the path a pattern with a leading slash names: the pattern without that
\* slash and without a trailing one
AnchoredPath(pattern) ==
  LET rest == Tail(pattern)
  IN IF rest # <<>> /\ rest[Len(rest)] = "/" THEN Front(rest) ELSE rest

\* C39: for a pattern that starts with '/', with or without a trailing '/',
\* matchPattern is true exactly when the file is the pattern without its
\* leading slash or lies under the path the pattern names.
C39_LeadingSlashAnchored ==
  (Applied("matchPattern") /\ fn.args[2][1] = "/") =>
    (fn.out <=> \/ fn.args[1] = Tail(fn.args[2])
                \/ StartsWith(fn.args[1], AnchoredPath(fn.args[2]) \o <<"/">>))

\* the file s/s is not matched by the pattern /s/
C39_AnchoredDirectoryMissed ==
  /\ Applied("matchPattern")
  /\ fn.args[2] = <<"/", "s", "/">>
  /\ fn.args[1] = <<"s", "/", "s">>
  /\ fn.out = FALSE

\* a pattern with a leading slash only matches the file it names
C39_AnchoredFile ==
  /\ Applied("matchPattern")
  /\ fn.args[2] = <<"/", "s">>
  /\ fn.args[1] = <<"s">>
  /\ fn.out = TRUE

====
